---- MODULE Spec2Model ----
(***************************************************************************)
(* State-machine model of the mind-map editor of StudyMatePlus             *)
(* (client/src/pages/MindMapEditor.js): the React state of the component   *)
(* (nodes, edges, collapsed, the two selections, the connection tool and   *)
(* its pending settings) and one action per event handler.                 *)
(*                                                                         *)
(* What the model leaves out, and why the properties do not depend on it:  *)
(*  - node positions and node data (label, subject, colour): no handler    *)
(*    reads them to decide a change of nodes, edges or collapsed;          *)
(*  - the label background and label colour of an edge (labelShowBg,       *)
(*    labelBgStyle, labelStyle, labelBgPadding) and the pending settings   *)
(*    they are copied from: no handler reads them;                         *)
(*  - every edge has type 'smoothstep', so the field is not stored.        *)
(* React batches the set-state calls of one handler and re-renders before  *)
(* the next event, so one handler is one atomic action and the memoised    *)
(* values (hiddenTargets, decoratedNodes, visibleEdges) are those of the   *)
(* state the handler runs in.                                              *)
(* The to-do page (client/src/pages/Todo.js) is modelled beside it: its    *)
(* load effect a loop turn at a time, its save effect and its handlers.    *)
(***************************************************************************)
EXTENDS Integers, Sequences, FiniteSets, TLC

VARIABLES
    nodes,           \* useState nodes: sequence of [id, type]
    edges,           \* useState edges: sequence of edge records
    selectedId,      \* id of the selected node, or Null
    selectedEdgeId,  \* id of the selected edge, or Null
    collapsed,       \* the collapsed Set, in insertion order
    connLabel,       \* pending connection label
    connType,        \* pending arrow mode: one-way | two-way | none
    currentTool,     \* one-way | two-way | informational | node | dotted | waypoint
    hiddenTargets,   \* useMemo value of computeHiddenTargets(collapsed, edges)
    nextUuid,        \* number of ids uuid() has issued so far
    connectFrom,     \* source node of a connect drag in progress, or Null
    storage,         \* the item smp_map_v2 of the local storage
    mountAt,         \* the mount effect to run next, "done" after the mount
    queued,          \* the state updates the load effect has queued, in order
    todo,            \* the to-do page (Todo.js): its storage item, the locals of
                     \* its load effect, its tasks and its form
    connColor,       \* pending stroke colour
    connWidth        \* pending stroke width: a number, or the text typed in the input

vars == <<nodes, edges, selectedId, selectedEdgeId, collapsed, connLabel,
          connType, currentTool, hiddenTargets, nextUuid, connectFrom,
          storage, mountAt, queued, todo, connColor, connWidth>>

----------------------------------------------------------------------------
(* Bounds *)

\* how many ids uuid() may issue in one run
MaxUuid == 6

\* tighter budgets of ids for the runs that vary the selection, the templates,
\* the connection settings and the connect drag
MaxStoreUuid == 4
MaxTemplateUuid == 4
MaxToolUuid == 2
MaxGestureUuid == 3

\* budgets of ids for the runs that vary the pending label, for the runs that
\* split and rejoin the edges of a template and for the runs that split drawn edges
MaxLabelUuid == 4
MaxInformationalUuid == 6
MaxWaypointUuid == 6
MaxSplitUuid == 6

\* budgets of ids for the runs that bend drawn edges and for the runs that apply
\* the three waypoint operations to the edges of a template
MaxBendUuid == 5
MaxChainUuid == 6

\* budget of ids for the runs that load, import and edit a map
MaxPersistUuid == 3

\* budgets of ids for the runs that collapse, delete and bend, and for the runs
\* that connect under the Waypoint tool
MaxCollapseUuid == 5
MaxDefaultUuid == 3

\* budget of ids for the runs that mount the editor and then edit the map
MaxStartupUuid == 6

\* budget of ids for the runs that apply a template to an edited map
MaxApplyUuid == 5

\* budget of ids for the runs that add children under any selection
MaxChildUuid == 6

\* longest task list the to-do page is loaded with
MaxTasks == 2
TicksPerDay == 2
MaxDay == 70

\* longest edge list of the stand-alone check of computeHiddenTargets
MaxHidEdges == 3

----------------------------------------------------------------------------
(* Values *)

Null == "null"
Undefined == "undefined"

\* the empty deadline of the form, ""
NoDeadline == -1

\* const defaultForm, line 7 (the description, which no handler reads, left out)
defaultForm == [id |-> Null, title |-> "", deadline |-> NoDeadline,
                recurrence |-> "none", completed |-> Undefined]

\* the to-do page while it is not open, its storage item absent
todoClosed == [at |-> "closed", run |-> 1, stored |-> <<>>, loaded |-> <<>>,
               i |-> 0, changed |-> FALSE, queued |-> <<>>, tasks |-> <<>>,
               form |-> defaultForm, isEditing |-> FALSE, showModal |-> FALSE,
               nextId |-> 0]

\* the ids uuid() returns, in the order it returns them; all distinct
UuidNames == <<"u1", "u2", "u3", "u4", "u5", "u6", "u7", "u8", "u9", "u10",
               "u11", "u12", "u13", "u14", "u15", "u16">>

uuid(k) == UuidNames[nextUuid + k]

Tools == {"one-way", "two-way", "informational", "node", "dotted", "waypoint"}
ConnTypes == {"one-way", "two-way", "none"}
ConnLabels == {"", "causes"}

\* the style of an edge: absent, or an object with some of the keys stroke,
\* strokeWidth and strokeDasharray
NoStyle == [has |-> FALSE]
styleOf(props) == [has |-> TRUE, props |-> props]
NoProps == [k \in {} |-> Undefined]

\* {}
StyleEmpty == styleOf(NoProps)

\* { ...(style || {}), [key]: value }
withProp(style, key, value) ==
    LET props == IF style.has THEN style.props ELSE NoProps
    IN styleOf([k \in (DOMAIN props) \cup {key} |->
                   IF k = key THEN value ELSE props[k]])

Range(s) == {s[i] : i \in 1..Len(s)}

\* Array.prototype.filter with the predicate given as the set of kept indices
RECURSIVE FilterSeq(_, _, _)
FilterSeq(s, keep, i) ==
    IF i > Len(s) THEN <<>>
    ELSE IF i \in keep THEN <<s[i]>> \o FilterSeq(s, keep, i + 1)
    ELSE FilterSeq(s, keep, i + 1)

\* Array.prototype.find: index of the first element satisfying the predicate, 0 if none
FindIndex(s, sat) == IF sat = {} THEN 0 ELSE CHOOSE i \in sat : \A j \in sat : i <= j

NodeIds == {nodes[i].id : i \in 1..Len(nodes)}
EdgeIds == {edges[i].id : i \in 1..Len(edges)}

----------------------------------------------------------------------------
(* computeHiddenTargets, lines 69-82 *)

\* forEachEdge following the edges from target to source
RECURSIVE forEachEdgeBackwards(_, _, _, _, _)
forEachEdgeBackwards(src, es, i, hidden, queue) ==
    IF i > Len(es) THEN [hidden |-> hidden, queue |-> queue]
    ELSE IF es[i].target = src /\ es[i].source \notin hidden
         THEN forEachEdgeBackwards(src, es, i + 1, hidden \cup {es[i].source},
                                   Append(queue, es[i].source))
         ELSE forEachEdgeBackwards(src, es, i + 1, hidden, queue)

\* forEachEdge without queue.push(e.target): the traversal stops after one level
RECURSIVE forEachEdgeNoPush(_, _, _, _, _)
forEachEdgeNoPush(src, es, i, hidden, queue) ==
    IF i > Len(es) THEN [hidden |-> hidden, queue |-> queue]
    ELSE IF es[i].source = src /\ es[i].target \notin hidden
         THEN forEachEdgeNoPush(src, es, i + 1, hidden \cup {es[i].target}, queue)
         ELSE forEachEdgeNoPush(src, es, i + 1, hidden, queue)

\* forEachEdge pushing each target twice
RECURSIVE forEachEdgePushingTwice(_, _, _, _, _)
forEachEdgePushingTwice(src, es, i, hidden, queue) ==
    IF i > Len(es) THEN [hidden |-> hidden, queue |-> queue]
    ELSE IF es[i].source = src /\ es[i].target \notin hidden
         THEN forEachEdgePushingTwice(src, es, i + 1, hidden \cup {es[i].target},
                                      Append(Append(queue, es[i].target), es[i].target))
         ELSE forEachEdgePushingTwice(src, es, i + 1, hidden, queue)

\* edges.forEach(e => { if (e.source === src && !hidden.has(e.target)) {...} })
RECURSIVE forEachEdge(_, _, _, _, _)
forEachEdge(src, es, i, hidden, queue) ==
    IF i > Len(es) THEN [hidden |-> hidden, queue |-> queue]
    ELSE IF es[i].source = src /\ es[i].target \notin hidden
         THEN forEachEdge(src, es, i + 1, hidden \cup {es[i].target},
                          Append(queue, es[i].target))
         ELSE forEachEdge(src, es, i + 1, hidden, queue)

\* while (queue.length) { const src = queue.shift(); ... }
RECURSIVE drainQueue(_, _, _)
drainQueue(queue, hidden, es) ==
    IF queue = <<>> THEN hidden
    ELSE LET r == forEachEdge(Head(queue), es, 1, hidden, Tail(queue))
         IN drainQueue(r.queue, r.hidden, es)

computeHiddenTargets(collapsedIds, es) == drainQueue(collapsedIds, {}, es)

----------------------------------------------------------------------------
(* Derived (memoised) values, lines 159-183, 291-292 *)

CollapsedSet == Range(collapsed)

\* nodes.filter(n => !hiddenTargets.has(n.id) && !collapsed.has(n.id))
decoratedNodes ==
    FilterSeq(nodes,
              {i \in 1..Len(nodes) :
                  nodes[i].id \notin hiddenTargets /\ nodes[i].id \notin CollapsedSet},
              1)

\* edgeIsVisible without the test of the target
edgeIsVisibleBySource(e) ==
    /\ e.source \notin hiddenTargets
    /\ e.source \notin CollapsedSet

\* the predicate of the visibleEdges filter, line 182
edgeIsVisible(e) ==
    /\ e.source \notin hiddenTargets
    /\ e.target \notin hiddenTargets
    /\ e.source \notin CollapsedSet

\* edges.filter(e => !hiddenTargets.has(e.source) && !hiddenTargets.has(e.target)
\*                   && !collapsed.has(e.source))
visibleEdges ==
    FilterSeq(edges, {i \in 1..Len(edges) : edgeIsVisible(edges[i])}, 1)

RenderedIds == {decoratedNodes[i].id : i \in 1..Len(decoratedNodes)}

\* nodes.find(n => n.id === selectedId): its index, 0 when there is none
selectedNode == FindIndex(nodes, {i \in 1..Len(nodes) : nodes[i].id = selectedId})

\* edges.find(e => e.id === selectedEdgeId): its index, 0 when there is none
selectedEdge == FindIndex(edges, {i \in 1..Len(edges) : edges[i].id = selectedEdgeId})

----------------------------------------------------------------------------
(* Records *)

studyNode(id) == [id |-> id, type |-> "study"]
waypointNode(id) == [id |-> id, type |-> "waypoint"]
infoNode(id) == [id |-> id, type |-> "info"]

mkEdge(id, s, t, label, style, mStart, mEnd) ==
    [id |-> id, source |-> s, target |-> t, label |-> label, style |-> style,
     markerStart |-> mStart, markerEnd |-> mEnd]

\* { id, source, target, type:'smoothstep', markerEnd:{ type: MarkerType.ArrowClosed } }
arrowEdge(id, s, t) == mkEdge(id, s, t, Undefined, NoStyle, FALSE, TRUE)

\* connLabel || undefined
pendingLabel == IF connLabel = "" THEN Undefined ELSE connLabel

----------------------------------------------------------------------------
(* Array updates used by the handlers *)

\* nds.filter(n => n.id !== id)
removeNode(ns, id) == FilterSeq(ns, {i \in 1..Len(ns) : ns[i].id # id}, 1)

\* removeIncidentEdges that forgets the edges pointing at the node
removeOutgoingEdges(es, id) ==
    FilterSeq(es, {i \in 1..Len(es) : es[i].source # id}, 1)

\* eds.filter(e => e.source !== id && e.target !== id)
removeIncidentEdges(es, id) ==
    FilterSeq(es, {i \in 1..Len(es) : es[i].source # id /\ es[i].target # id}, 1)

\* eds.filter(x => x.id !== edgeId)
removeEdge(es, edgeId) == FilterSeq(es, {i \in 1..Len(es) : es[i].id # edgeId}, 1)

----------------------------------------------------------------------------
(* The local storage.  A JSON text is modelled by what JSON.parse makes of   *)
(* it: a text it rejects, the value null, a number, an array, or an object  *)
(* with some of the keys nodes, edges and collapsed, each an array, a       *)
(* number or null.  An object whose nodes or edges is not an array is left  *)
(* out: it is stored as it is and the component cannot render it.           *)

jsUnparsable == [kind |-> "unparsable"]
jsNull == [kind |-> "null"]
jsNumber(n) == [kind |-> "number", value |-> n]
jsString(text) == [kind |-> "string", text |-> text]
jsArray(items) == [kind |-> "array", items |-> items]
jsObject(fields) == [kind |-> "object", fields |-> fields]

\* the values that `||` replaces by its right operand
falsy(v) == v.kind = "null" \/ (v.kind = "number" /\ v.value = 0)

\* the keys JSON.stringify writes for an edge: a key whose value is undefined
\* is dropped
writtenKeys(e) ==
    {"id", "source", "target"}
        \cup (IF e.label # Undefined THEN {"label"} ELSE {})
        \cup (IF e.style # NoStyle THEN {"style"} ELSE {})
        \cup (IF e.markerStart THEN {"markerStart"} ELSE {})
        \cup (IF e.markerEnd THEN {"markerEnd"} ELSE {})

\* jsonEdge without the label
jsonEdgeNoLabel(e) == [k \in writtenKeys(e) \ {"label"} |-> e[k]]

\* JSON.stringify of an edge
jsonEdge(e) == [k \in writtenKeys(e) |-> e[k]]

\* the edge read from a parsed object: a key that is missing reads as undefined
edgeFromJson(o) ==
    mkEdge(o["id"], o["source"], o["target"],
           IF "label" \in DOMAIN o THEN o["label"] ELSE Undefined,
           IF "style" \in DOMAIN o THEN o["style"] ELSE NoStyle,
           "markerStart" \in DOMAIN o,
           "markerEnd" \in DOMAIN o)

\* JSON.stringify({ nodes, edges, collapsed: Array.from(collapsed) }), lines 129, 496
jsonStore(ns, es, c) ==
    jsObject([nodes |-> jsArray(ns),
              edges |-> jsArray([i \in 1..Len(es) |-> jsonEdge(es[i])]),
              collapsed |-> jsArray(c)])

\* localStorage.getItem('smp_map_v2') when nothing was stored
jsNoItem == [kind |-> "none"]

\* the save effect, lines 127-131: it runs after every render that changed nodes,
\* edges or collapsed
SaveEffect == storage' = jsonStore(nodes', edges', collapsed')

----------------------------------------------------------------------------

\* every handler is followed by a render, which recomputes the memo
Render == hiddenTargets' = computeHiddenTargets(collapsed', edges')

----------------------------------------------------------------------------
(* Initial state, lines 89-110: the root node alone, mounted with nothing   *)
(* in the local storage, so that the save effect has stored the root alone  *)

Init ==
    /\ nodes = <<studyNode("root")>>
    /\ edges = <<>>
    /\ selectedId = "root"
    /\ selectedEdgeId = Null
    /\ collapsed = <<>>
    /\ connLabel = ""
    /\ connType = "one-way"
    /\ connColor = "#4f46e5"
    /\ connWidth = jsNumber(2)
    /\ currentTool = "one-way"
    /\ hiddenTargets = {}
    /\ nextUuid = 0
    /\ connectFrom = Null
    /\ storage = jsonStore(nodes, edges, collapsed)
    /\ mountAt = "done"
    /\ queued = <<>>
    /\ todo = todoClosed

----------------------------------------------------------------------------
(* Tool panel and pending connection settings, lines 519-524, 713-719 *)

\* the connType each tool button sets; Node Box and Waypoint leave it alone
toolConnType(tool, cur) ==
    CASE tool = "one-way" -> "one-way"
      [] tool = "two-way" -> "two-way"
      [] tool = "informational" -> "none"
      [] tool = "dotted" -> "one-way"
      [] OTHER -> cur

SelectTool(tool) ==
    /\ currentTool' = tool
    /\ connType' = toolConnType(tool, connType)
    /\ UNCHANGED <<nodes, edges, selectedId, selectedEdgeId, collapsed, connLabel,
                   hiddenTargets, nextUuid>>
    /\ UNCHANGED <<connectFrom, mountAt, queued, todo, connColor,
                   connWidth>>
    /\ SaveEffect

\* <select value={connType} onChange={e=>setConnType(e.target.value)}>
SetConnType(v) ==
    /\ v # connType
    /\ connType' = v
    /\ UNCHANGED <<nodes, edges, selectedId, selectedEdgeId, collapsed, connLabel,
                   currentTool, hiddenTargets, nextUuid>>
    /\ UNCHANGED <<connectFrom, mountAt, queued, todo, connColor,
                   connWidth>>
    /\ SaveEffect

\* <input value={connLabel} onChange={e=>setConnLabel(e.target.value)}>
SetConnLabel(l) ==
    /\ l # connLabel
    /\ connLabel' = l
    /\ UNCHANGED <<nodes, edges, selectedId, selectedEdgeId, collapsed, connType,
                   currentTool, hiddenTargets, nextUuid>>
    /\ UNCHANGED <<connectFrom, mountAt, queued, todo, connColor,
                   connWidth>>
    /\ SaveEffect

\* what is typed in the colour and width inputs of the connection settings
ConnColours == {"#ff0000"}
ConnWidths == {"5", ""}

\* <input type="color" value={connColor} onChange={e=>setConnColor(e.target.value)}>
SetConnColor(colour) ==
    /\ connColor' = colour
    /\ UNCHANGED <<nodes, edges, selectedId, selectedEdgeId, collapsed, connLabel,
                   connType, currentTool, hiddenTargets, nextUuid>>
    /\ UNCHANGED <<connectFrom, mountAt, queued, todo, connWidth>>
    /\ SaveEffect

\* <input type="number" value={connWidth} onChange={e=>setConnWidth(e.target.value)}>:
\* the state holds the text of the input
SetConnWidth(text) ==
    /\ connWidth' = jsString(text)
    /\ UNCHANGED <<nodes, edges, selectedId, selectedEdgeId, collapsed, connLabel,
                   connType, currentTool, hiddenTargets, nextUuid>>
    /\ UNCHANGED <<connectFrom, mountAt, queued, todo, connColor>>
    /\ SaveEffect

----------------------------------------------------------------------------
(* onConnect, lines 213-274 *)

\* Number(connWidth): a number is itself, the empty text is 0
toNumber(v) ==
    IF v.kind = "number" THEN v.value
    ELSE CASE v.text = "" -> 0
           [] v.text = "5" -> 5

\* const baseStyle = { stroke: connColor, strokeWidth: Number(connWidth) }
baseStyle == styleOf([stroke |-> connColor, strokeWidth |-> toNumber(connWidth)])

\* { ...baseStyle, strokeDasharray: '6 6' }
dashedStyle == withProp(baseStyle, "strokeDasharray", "6 6")

\* connMarkerStart that never sets the start marker
connMarkerStartNever(ct) == FALSE

\* connMarkerEnd testing for 'one-way' instead of against 'none'
connMarkerEndOneWayOnly(ct) == ct = "one-way"

\* markerEnd: connType !== 'none' ? { type: MarkerType.ArrowClosed } : undefined
connMarkerEnd(ct) == ct # "none"

\* markerStart: connType === 'two-way' ? { type: MarkerType.ArrowClosed } : undefined
connMarkerStart(ct) == ct = "two-way"

\* defaultEdge from the target to the source
defaultEdgeReversed(id, s, t) ==
    mkEdge(id, t, s, pendingLabel, baseStyle, connMarkerStart(connType),
           connMarkerEnd(connType))

\* the edge of the default branch, lines 257-270
defaultEdge(id, s, t) ==
    mkEdge(id, s, t, pendingLabel, baseStyle, connMarkerStart(connType),
           connMarkerEnd(connType))

\* dottedEdge without the strokeDasharray
dottedEdgeSolid(id, s, t) ==
    mkEdge(id, s, t, pendingLabel, baseStyle, connMarkerStart(connType),
           connMarkerEnd(connType))

\* the edge of the dotted branch, lines 238-251
dottedEdge(id, s, t) ==
    mkEdge(id, s, t, pendingLabel, dashedStyle, connMarkerStart(connType),
           connMarkerEnd(connType))

\* edgeA with the arrowheads of the pending arrow mode, as the other branches set them
infoEdgeAPendingArrows(id, s, wpId) ==
    mkEdge(id, s, wpId, pendingLabel, baseStyle, connMarkerStart(connType),
           connMarkerEnd(connType))

\* edgeA and edgeB of the informational branch, lines 230-231
infoEdgeA(id, s, wpId) == mkEdge(id, s, wpId, pendingLabel, baseStyle, FALSE, FALSE)
infoEdgeB(id, wpId, t) == mkEdge(id, wpId, t, Undefined, baseStyle, FALSE, FALSE)

\* the handles a connect gesture can join: study and waypoint nodes that are rendered
Connectable ==
    {decoratedNodes[i].id : i \in {j \in 1..Len(decoratedNodes) :
                                      decoratedNodes[j].type \in {"study", "waypoint"}}}

\* the node branch falling through to the default branch after createNodeBox()
OnConnectNodeAndEdge(s, t) ==
    /\ currentTool = "node"
    /\ nextUuid + 2 <= MaxUuid
    /\ nodes' = Append(nodes, studyNode(uuid(2)))
    /\ edges' = Append(edges, defaultEdge(uuid(1), s, t))
    /\ selectedId' = uuid(2)
    /\ nextUuid' = nextUuid + 2
    /\ UNCHANGED <<selectedEdgeId, collapsed, connLabel, connType, currentTool>>
    /\ Render
    /\ connectFrom' = Null
    /\ UNCHANGED <<mountAt, queued, todo, connColor,
                   connWidth>>
    /\ SaveEffect

\* currentTool === 'node': createNodeBox(), lines 218-221 and 186-193
OnConnectNode(s, t) ==
    /\ currentTool = "node"
    /\ nextUuid + 2 <= MaxUuid
    /\ nodes' = Append(nodes, studyNode(uuid(2)))
    /\ selectedId' = uuid(2)
    /\ nextUuid' = nextUuid + 2
    /\ UNCHANGED <<edges, selectedEdgeId, collapsed, connLabel, connType, currentTool>>
    /\ Render
    /\ connectFrom' = Null
    /\ UNCHANGED <<mountAt, queued, todo, connColor,
                   connWidth>>
    /\ SaveEffect

\* currentTool === 'informational', lines 223-235
OnConnectInformational(s, t) ==
    /\ currentTool = "informational"
    /\ nextUuid + 4 <= MaxUuid
    /\ nodes' = Append(nodes, waypointNode(uuid(2)))
    /\ edges' = edges \o <<infoEdgeA(uuid(3), s, uuid(2)), infoEdgeB(uuid(4), uuid(2), t)>>
    /\ nextUuid' = nextUuid + 4
    /\ UNCHANGED <<selectedId, selectedEdgeId, collapsed, connLabel, connType, currentTool>>
    /\ Render
    /\ connectFrom' = Null
    /\ UNCHANGED <<mountAt, queued, todo, connColor,
                   connWidth>>
    /\ SaveEffect

\* currentTool === 'dotted', lines 237-254
OnConnectDotted(s, t) ==
    /\ currentTool = "dotted"
    /\ nextUuid + 1 <= MaxUuid
    /\ edges' = Append(edges, dottedEdge(uuid(1), s, t))
    /\ nextUuid' = nextUuid + 1
    /\ UNCHANGED <<nodes, selectedId, selectedEdgeId, collapsed, connLabel, connType,
                   currentTool>>
    /\ Render
    /\ connectFrom' = Null
    /\ UNCHANGED <<mountAt, queued, todo, connColor,
                   connWidth>>
    /\ SaveEffect

\* every other tool (one-way, two-way, waypoint), lines 256-271
OnConnectDefault(s, t) ==
    /\ currentTool \notin {"node", "informational", "dotted"}
    /\ nextUuid + 1 <= MaxUuid
    /\ edges' = Append(edges, defaultEdge(uuid(1), s, t))
    /\ nextUuid' = nextUuid + 1
    /\ UNCHANGED <<nodes, selectedId, selectedEdgeId, collapsed, connLabel, connType,
                   currentTool>>
    /\ Render
    /\ connectFrom' = Null
    /\ UNCHANGED <<mountAt, queued, todo, connColor,
                   connWidth>>
    /\ SaveEffect

OnConnect(s, t) ==
    \/ OnConnectNode(s, t)
    \/ OnConnectInformational(s, t)
    \/ OnConnectDotted(s, t)
    \/ OnConnectDefault(s, t)

----------------------------------------------------------------------------
(* Selection, lines 277-289 *)

\* onSelectionChange({nodes, edges}): n and e are nodes[0] and edges[0] of the
\* canvas selection (Null when the list is empty); the node is preferred
OnSelectionChange(n, e) ==
    /\ selectedId' = n
    /\ selectedEdgeId' = IF n # Null THEN Null ELSE e
    /\ UNCHANGED <<nodes, edges, collapsed, connLabel, connType, currentTool,
                   hiddenTargets, nextUuid>>
    /\ UNCHANGED <<connectFrom, mountAt, queued, todo, connColor,
                   connWidth>>
    /\ SaveEffect

----------------------------------------------------------------------------
(* Keyboard, lines 295-332 *)

\* Delete / Backspace: the selected edge first, else the selected non-root node
OnKeyDelete ==
    /\ IF selectedEdgeId # Null
       THEN /\ edges' = removeEdge(edges, selectedEdgeId)
            /\ selectedEdgeId' = Null
            /\ UNCHANGED <<nodes, selectedId>>
       ELSE IF selectedId # Null /\ selectedId # "root"
       THEN /\ nodes' = removeNode(nodes, selectedId)
            /\ edges' = removeIncidentEdges(edges, selectedId)
            /\ selectedId' = Null
            /\ UNCHANGED selectedEdgeId
       ELSE UNCHANGED <<nodes, edges, selectedId, selectedEdgeId>>
    /\ UNCHANGED <<collapsed, connLabel, connType, currentTool, nextUuid>>
    /\ Render
    /\ UNCHANGED <<connectFrom, mountAt, queued, todo, connColor,
                   connWidth>>
    /\ SaveEffect

\* Shift+N: createNodeBoxAt(pos) or createNodeBox(), both lines 186-201
OnKeyShiftN ==
    /\ nextUuid + 1 <= MaxUuid
    /\ nodes' = Append(nodes, studyNode(uuid(1)))
    /\ selectedId' = uuid(1)
    /\ nextUuid' = nextUuid + 1
    /\ UNCHANGED <<edges, selectedEdgeId, collapsed, connLabel, connType, currentTool,
                   hiddenTargets>>
    /\ UNCHANGED <<connectFrom, mountAt, queued, todo, connColor,
                   connWidth>>
    /\ SaveEffect

----------------------------------------------------------------------------
(* onPaneClick, lines 579-604 *)

\* createNodeBoxAt under the Node Box tool, createInfoNodeAt under Informational
OnPaneClick ==
    /\ currentTool \in {"node", "informational"}
    /\ nextUuid + 1 <= MaxUuid
    /\ nodes' = Append(nodes, IF currentTool = "node" THEN studyNode(uuid(1))
                                                      ELSE infoNode(uuid(1)))
    /\ selectedId' = uuid(1)
    /\ nextUuid' = nextUuid + 1
    /\ UNCHANGED <<edges, selectedEdgeId, collapsed, connLabel, connType, currentTool,
                   hiddenTargets>>
    /\ UNCHANGED <<connectFrom, mountAt, queued, todo, connColor,
                   connWidth>>
    /\ SaveEffect

----------------------------------------------------------------------------
(* addChild and deleteSelected, lines 335-353 *)

\* childBase that always takes the first node
childBaseFirst == IF Len(nodes) > 0 THEN 1 ELSE 0

\* const base = selectedNode || nodes[0]: its index, 0 when the store is empty
childBase == IF selectedNode # 0 THEN selectedNode ELSE IF Len(nodes) > 0 THEN 1 ELSE 0

AddChild ==
    /\ IF childBase = 0
       THEN UNCHANGED <<nodes, edges, selectedId, nextUuid>>
       ELSE /\ nextUuid + 2 <= MaxUuid
            /\ nodes' = Append(nodes, studyNode(uuid(1)))
            /\ edges' = Append(edges, arrowEdge(uuid(2), nodes[childBase].id, uuid(1)))
            /\ selectedId' = uuid(1)
            /\ nextUuid' = nextUuid + 2
    /\ UNCHANGED <<selectedEdgeId, collapsed, connLabel, connType, currentTool>>
    /\ Render
    /\ UNCHANGED <<connectFrom, mountAt, queued, todo, connColor,
                   connWidth>>
    /\ SaveEffect

\* if (!selectedNode || selectedNode.id === 'root') return;
DeleteSelected ==
    /\ IF selectedNode = 0 \/ selectedId = "root"
       THEN UNCHANGED <<nodes, edges, selectedId>>
       ELSE /\ nodes' = removeNode(nodes, selectedId)
            /\ edges' = removeIncidentEdges(edges, selectedId)
            /\ selectedId' = "root"
    /\ UNCHANGED <<selectedEdgeId, collapsed, connLabel, connType, currentTool, nextUuid>>
    /\ Render
    /\ UNCHANGED <<connectFrom, mountAt, queued, todo, connColor,
                   connWidth>>
    /\ SaveEffect

----------------------------------------------------------------------------
(* Edge deletion buttons, lines 705 and 759 *)

\* inspector "Delete Edge": shown when selectedEdge exists
DeleteSelectedEdge ==
    /\ selectedEdge # 0
    /\ edges' = removeEdge(edges, selectedEdgeId)
    /\ selectedEdgeId' = Null
    /\ UNCHANGED <<nodes, selectedId, collapsed, connLabel, connType, currentTool,
                   nextUuid>>
    /\ Render
    /\ UNCHANGED <<connectFrom, mountAt, queued, todo, connColor,
                   connWidth>>
    /\ SaveEffect

\* connection list "Delete": one button per edge of the store
DeleteEdge(edgeId) ==
    /\ edges' = removeEdge(edges, edgeId)
    /\ UNCHANGED <<nodes, selectedId, selectedEdgeId, collapsed, connLabel, connType,
                   currentTool, nextUuid>>
    /\ Render
    /\ UNCHANGED <<connectFrom, mountAt, queued, todo, connColor,
                   connWidth>>
    /\ SaveEffect

----------------------------------------------------------------------------
(* Edge inputs, lines 702 and 745-755: the label input of the inspector, and *)
(* the label, arrow, colour and width inputs of each row of the edge list    *)

\* what is typed or chosen in the inputs
EdgeLabels == {"", "because"}
ArrowOptions == {"one-way", "two-way", "none"}
EdgeColours == {"#ff0000"}
EdgeWidths == {3}

\* eds.map(x => x.id === edgeId ? change(x) : x), the change given edge by edge
mapEdge(es, edgeId, changed) ==
    [i \in 1..Len(es) |-> IF es[i].id = edgeId THEN changed[i] ELSE es[i]]

\* { ...x, label: value }
labelled(es, value) == [i \in 1..Len(es) |-> [es[i] EXCEPT !.label = value]]

\* { ...x, markerEnd: v !== 'none' ? arrow : undefined,
\*         markerStart: v === 'two-way' ? arrow : undefined }
arrowed(es, v) ==
    [i \in 1..Len(es) |->
        [es[i] EXCEPT !.markerEnd = (v # "none"), !.markerStart = (v = "two-way")]]

\* { ...x, style: { ...(x.style || {}), [key]: value } }
restyled(es, key, value) ==
    [i \in 1..Len(es) |-> [es[i] EXCEPT !.style = withProp(es[i].style, key, value)]]

\* a handler that sets edges and nothing else
SetEdges(es) ==
    /\ edges' = es
    /\ UNCHANGED <<nodes, selectedId, selectedEdgeId, collapsed, connLabel, connType,
                   currentTool, nextUuid>>
    /\ Render
    /\ UNCHANGED <<connectFrom, mountAt, queued, todo, connColor,
                   connWidth>>
    /\ SaveEffect

\* inspector label input, line 702: shown when selectedEdge exists
SetSelectedEdgeLabel(value) ==
    /\ selectedEdge # 0
    /\ SetEdges(mapEdge(edges, selectedEdgeId, labelled(edges, value)))

\* edge list, line 745
SetEdgeLabel(edgeId, value) ==
    SetEdges(mapEdge(edges, edgeId, labelled(edges, value)))

\* edge list, lines 746-753
SetEdgeArrows(edgeId, v) ==
    SetEdges(mapEdge(edges, edgeId, arrowed(edges, v)))

\* edge list, line 754
SetEdgeColour(edgeId, colour) ==
    SetEdges(mapEdge(edges, edgeId, restyled(edges, "stroke", colour)))

\* edge list, line 755
SetEdgeWidth(edgeId, width) ==
    SetEdges(mapEdge(edges, edgeId, restyled(edges, "strokeWidth", width)))

----------------------------------------------------------------------------
(* React Flow change handlers, lines 211-212.  Of the changes React Flow     *)
(* reports, the removals change what the model keeps of a node or an edge;   *)
(* it reports them for the nodes and edges it was given, when its own        *)
(* delete key is pressed on a selection of the canvas.                       *)

\* setNodes(nds => applyNodeChanges(changes, nds)), removed the ids of the
\* changes of type remove
OnNodesChange(removed) ==
    /\ nodes' = FilterSeq(nodes, {i \in 1..Len(nodes) : nodes[i].id \notin removed}, 1)
    /\ UNCHANGED <<edges, selectedId, selectedEdgeId, collapsed, connLabel, connType,
                   currentTool, nextUuid>>
    /\ Render
    /\ UNCHANGED <<connectFrom, mountAt, queued, todo, connColor,
                   connWidth>>
    /\ SaveEffect

\* setEdges(eds => applyEdgeChanges(changes, eds))
OnEdgesChange(removed) ==
    /\ edges' = FilterSeq(edges, {i \in 1..Len(edges) : edges[i].id \notin removed}, 1)
    /\ UNCHANGED <<nodes, selectedId, selectedEdgeId, collapsed, connLabel, connType,
                   currentTool, nextUuid>>
    /\ Render
    /\ UNCHANGED <<connectFrom, mountAt, queued, todo, connColor,
                   connWidth>>
    /\ SaveEffect

----------------------------------------------------------------------------
(* Collapse toggle, lines 169-175 *)

\* toggled emptying the set where it should delete the id
toggledClearing(c, id) == IF id \in Range(c) THEN <<>> ELSE Append(c, id)

\* next.has(id) ? next.delete(id) : next.add(id)
toggled(c, id) ==
    IF id \in Range(c) THEN FilterSeq(c, {i \in 1..Len(c) : c[i] # id}, 1)
    ELSE Append(c, id)

\* the toggle is part of a rendered study node
ToggleCollapse(id) ==
    /\ collapsed' = toggled(collapsed, id)
    /\ UNCHANGED <<nodes, edges, selectedId, selectedEdgeId, connLabel, connType,
                   currentTool, nextUuid>>
    /\ Render
    /\ UNCHANGED <<connectFrom, mountAt, queued, todo, connColor,
                   connWidth>>
    /\ SaveEffect

----------------------------------------------------------------------------
(* Waypoints, lines 356-430 *)

\* eds.find(x => x.id === edgeId): its index, 0 when there is none
findEdge(es, edgeId) == FindIndex(es, {i \in 1..Len(es) : es[i].id = edgeId})

\* splitSegments dividing the markers between the segments as insertWaypointAt does
splitSegmentsDividingMarkers(e, wpId, idA, idB) ==
    << mkEdge(idA, e.source, wpId, e.label, e.style, e.markerStart, FALSE),
       mkEdge(idB, wpId, e.target, e.label, e.style, FALSE, e.markerEnd) >>

\* the two segments of splitEdgeToWaypoint, lines 367-368
splitSegments(e, wpId, idA, idB) ==
    << mkEdge(idA, e.source, wpId, e.label, e.style, e.markerStart, e.markerEnd),
       mkEdge(idB, wpId, e.target, e.label, e.style, e.markerStart, e.markerEnd) >>

\* "Add waypoint": one button per edge of the store
SplitEdgeToWaypoint(edgeId) ==
    /\ LET i == findEdge(edges, edgeId) IN
       IF i = 0
       THEN UNCHANGED <<nodes, edges, nextUuid>>
       ELSE /\ nextUuid + 3 <= MaxUuid
            /\ edges' = removeEdge(edges, edgeId)
                          \o splitSegments(edges[i], uuid(1), uuid(2), uuid(3))
            /\ nodes' = Append(nodes, waypointNode(uuid(1)))
            /\ nextUuid' = nextUuid + 3
    /\ UNCHANGED <<selectedId, selectedEdgeId, collapsed, connLabel, connType, currentTool>>
    /\ Render
    /\ UNCHANGED <<connectFrom, mountAt, queued, todo, connColor,
                   connWidth>>
    /\ SaveEffect

\* const style = e.style || {}; style: { ...style }
copiedStyle(style) == IF style = NoStyle THEN StyleEmpty ELSE style

\* insertSegments with the label and both markers on both segments
insertSegmentsKeepingMarkers(e, wpId, idA, idB) ==
    << mkEdge(idA, e.source, wpId, e.label, copiedStyle(e.style), e.markerStart,
              e.markerEnd),
       mkEdge(idB, wpId, e.target, e.label, copiedStyle(e.style), e.markerStart,
              e.markerEnd) >>

\* the two segments of insertWaypointAt, lines 389-408
insertSegments(e, wpId, idA, idB) ==
    << mkEdge(idA, e.source, wpId, e.label, copiedStyle(e.style), e.markerStart, FALSE),
       mkEdge(idB, wpId, e.target, Undefined, copiedStyle(e.style), FALSE, e.markerEnd) >>

\* the waypoint node is added before the edge is looked up
insertWaypointAt(edgeId) ==
    /\ nodes' = Append(nodes, waypointNode(uuid(1)))
    /\ LET i == findEdge(edges, edgeId) IN
       IF i = 0
       THEN /\ nextUuid + 1 <= MaxUuid
            /\ nextUuid' = nextUuid + 1
            /\ UNCHANGED edges
       ELSE /\ nextUuid + 3 <= MaxUuid
            /\ edges' = removeEdge(edges, edgeId)
                          \o insertSegments(edges[i], uuid(1), uuid(2), uuid(3))
            /\ nextUuid' = nextUuid + 3
    /\ UNCHANGED <<selectedId, selectedEdgeId, collapsed, connLabel, connType, currentTool>>
    /\ Render
    /\ UNCHANGED <<connectFrom, mountAt, queued, todo, connColor,
                   connWidth>>
    /\ SaveEffect

\* onEdgeDoubleClick, lines 605-617: the edge is one the canvas shows
OnEdgeDoubleClick(edgeId) ==
    /\ insertWaypointAt(edgeId)

\* onEdgeClick, lines 618-629: only under the Waypoint tool
OnEdgeClick(edgeId) ==
    /\ currentTool = "waypoint"
    /\ insertWaypointAt(edgeId)

\* lines 415-417: index of the waypoint removeWaypoint picks for edge e, 0 if none
findWaypoint(ns, es, e) ==
    FindIndex(ns,
        {n \in 1..Len(ns) :
            /\ ns[n].type = "waypoint"
            /\ \/ \E k \in 1..Len(es) : es[k].source = ns[n].id /\ es[k].target = e.target
               \/ \E k \in 1..Len(es) : es[k].target = ns[n].id /\ es[k].source = e.source})

\* line 425: the edge that replaces the two segments
joinedEdge(id, before, after) ==
    mkEdge(id, before.source, after.target, before.label, before.style, FALSE,
           after.markerEnd)

\* lines 420-429: the edge list after the waypoint wpId is spliced out
splicedEdges(es, wpId, id) ==
    LET before == FindIndex(es, {i \in 1..Len(es) : es[i].target = wpId})
        after == FindIndex(es, {i \in 1..Len(es) : es[i].source = wpId})
        others == FilterSeq(es, {i \in 1..Len(es) :
                                    es[i].source # wpId /\ es[i].target # wpId}, 1)
    IN IF before # 0 /\ after # 0
       THEN Append(others, joinedEdge(id, es[before], es[after]))
       ELSE others

\* whether the splice calls uuid()
spliceJoins(es, wpId) ==
    /\ \E i \in 1..Len(es) : es[i].target = wpId
    /\ \E i \in 1..Len(es) : es[i].source = wpId

\* "Remove waypoint": one button per edge of the store
RemoveWaypoint(edgeId) ==
    /\ LET i == findEdge(edges, edgeId)
           w == IF i = 0 THEN 0 ELSE findWaypoint(nodes, edges, edges[i])
       IN IF w = 0
          THEN UNCHANGED <<nodes, edges, nextUuid>>
          ELSE LET k == IF spliceJoins(edges, nodes[w].id) THEN 1 ELSE 0 IN
               /\ nextUuid + k <= MaxUuid
               /\ nodes' = removeNode(nodes, nodes[w].id)
               /\ edges' = splicedEdges(edges, nodes[w].id, uuid(1))
               /\ nextUuid' = nextUuid + k
    /\ UNCHANGED <<selectedId, selectedEdgeId, collapsed, connLabel, connType, currentTool>>
    /\ Render
    /\ UNCHANGED <<connectFrom, mountAt, queued, todo, connColor,
                   connWidth>>
    /\ SaveEffect

----------------------------------------------------------------------------
(* Templates, lines 438-484 *)

examNodes == <<studyNode("1"), studyNode("2"), studyNode("3"), studyNode("4")>>
examEdges == <<arrowEdge("e1-2", "1", "2"), arrowEdge("e1-3", "1", "3"),
               arrowEdge("e1-4", "1", "4")>>

researchNodes == <<studyNode("root"), studyNode("i"), studyNode("m"), studyNode("r"),
                   studyNode("c")>>
researchEdges == <<arrowEdge(uuid(1), "root", "i"), arrowEdge(uuid(2), "root", "m"),
                   arrowEdge(uuid(3), "root", "r"), arrowEdge(uuid(4), "root", "c")>>

plannerNodes == <<studyNode("root"), studyNode("m"), studyNode("n"), studyNode("e")>>
\* plannerEdges with the last edge to an id that is not a node of the template
plannerEdgesAstray ==
    <<arrowEdge(uuid(1), "root", "m"), arrowEdge(uuid(2), "root", "n"),
      arrowEdge(uuid(3), "root", "c")>>

plannerEdges == <<arrowEdge(uuid(1), "root", "m"), arrowEdge(uuid(2), "root", "n"),
                  arrowEdge(uuid(3), "root", "e")>>

templateNodes(type) ==
    CASE type = "exam" -> examNodes
      [] type = "research" -> researchNodes
      [] type = "planner" -> plannerNodes

templateEdges(type) ==
    CASE type = "exam" -> examEdges
      [] type = "research" -> researchEdges
      [] type = "planner" -> plannerEdges

\* how many ids the template takes from uuid()
templateUuids(type) ==
    CASE type = "exam" -> 0
      [] type = "research" -> 4
      [] type = "planner" -> 3
      [] OTHER -> 0

\* none of the three ifs applies to any other type
ApplyTemplate(type) ==
    /\ nextUuid + templateUuids(type) <= MaxUuid
    /\ IF type \in {"exam", "research", "planner"}
       THEN /\ nodes' = templateNodes(type)
            /\ edges' = templateEdges(type)
            /\ selectedId' = templateNodes(type)[1].id
            /\ collapsed' = <<>>
       ELSE UNCHANGED <<nodes, edges, selectedId, collapsed>>
    /\ nextUuid' = nextUuid + templateUuids(type)
    /\ UNCHANGED <<selectedEdgeId, connLabel, connType, currentTool>>
    /\ Render
    /\ UNCHANGED <<connectFrom, mountAt, queued, todo, connColor,
                   connWidth>>
    /\ SaveEffect

----------------------------------------------------------------------------
(* A connect drag in progress: React Flow calls onConnect when the drag that *)
(* started on a source handle is dropped on a target handle; key presses are *)
(* handled while the mouse button is down.                                   *)

OnConnectStart(s) ==
    /\ connectFrom = Null
    /\ connectFrom' = s
    /\ UNCHANGED <<nodes, edges, selectedId, selectedEdgeId, collapsed, connLabel,
                   connType, currentTool, hiddenTargets, nextUuid>>
    /\ UNCHANGED <<mountAt, queued, todo, connColor,
                   connWidth>>
    /\ SaveEffect

\* the drop: onConnect({source: connectFrom, target: t})
OnConnectEnd(t) ==
    /\ connectFrom # Null
    /\ OnConnect(connectFrom, t)

----------------------------------------------------------------------------
(* Persistence, lines 114-131 and 495-511 *)

\* new Set(array): the elements in the order of their first occurrence
setOfArray(a) ==
    FilterSeq(a, {i \in 1..Len(a) : \A j \in 1..(i - 1) : a[j] # a[i]}, 1)

\* parsed.nodes || [], parsed.edges || []
importedNodes(f) == IF "nodes" \in DOMAIN f THEN f["nodes"].items ELSE <<>>
importedEdges(f) ==
    IF "edges" \in DOMAIN f
    THEN [i \in 1..Len(f["edges"].items) |-> edgeFromJson(f["edges"].items[i])]
    ELSE <<>>

\* whether new Set(collapsed || []) throws: a number other than 0 is not iterable
collapsedThrows(f) ==
    /\ "collapsed" \in DOMAIN f
    /\ ~falsy(f["collapsed"])
    /\ f["collapsed"].kind # "array"

\* new Set(collapsed || [])
importedCollapsed(f) ==
    IF "collapsed" \in DOMAIN f /\ f["collapsed"].kind = "array"
    THEN setOfArray(f["collapsed"].items)
    ELSE <<>>

\* the keys read from what JSON.parse returned: a number or an array has none of
\* nodes, edges and collapsed
parsedFields(text) == IF text.kind = "object" THEN text.fields ELSE NoProps

\* importJSON, lines 501-511: JSON.parse throws on a text that is not JSON and
\* parsed.nodes throws on null; nodes and edges are set before the collapse set
\* is built, and the catch keeps what was set
ImportJSON(text) ==
    /\ IF text.kind \in {"unparsable", "null"}
       THEN UNCHANGED <<nodes, edges, collapsed>>
       ELSE /\ nodes' = importedNodes(parsedFields(text))
            /\ edges' = importedEdges(parsedFields(text))
            /\ collapsed' = IF collapsedThrows(parsedFields(text)) THEN collapsed
                            ELSE importedCollapsed(parsedFields(text))
    /\ UNCHANGED <<selectedId, selectedEdgeId, connLabel, connType, currentTool,
                   nextUuid>>
    /\ Render
    /\ UNCHANGED <<connectFrom, mountAt, queued, todo, connColor,
                   connWidth>>
    /\ SaveEffect

\* the state the component is constructed with, lines 89-110
AtMount ==
    /\ nodes = <<studyNode("root")>> /\ edges = <<>> /\ collapsed = <<>>
    /\ selectedId = "root" /\ selectedEdgeId = Null
    /\ connLabel = "" /\ connType = "one-way" /\ currentTool = "one-way"
    /\ connColor = "#4f46e5" /\ connWidth = jsNumber(2)
    /\ nextUuid = 0 /\ connectFrom = Null

\* the files and the snapshots tried: the file exportJSON writes of the present
\* store, a snapshot of a bent and collapsed map, the same without its collapsed
\* key, with 5, 0 or null for it and without its edges, an empty object, null, a
\* number, an empty array and a text that is not JSON
bentNodes == <<studyNode("root"), studyNode("a"), waypointNode("w")>>
storedStyle == styleOf([stroke |-> "#4f46e5", strokeWidth |-> 2])
bentEdges ==
    << [id |-> "e1", source |-> "root", target |-> "w", label |-> "causes",
        style |-> storedStyle, markerStart |-> TRUE],
       [id |-> "e2", source |-> "w", target |-> "a", style |-> storedStyle,
        markerEnd |-> TRUE] >>
bentStore ==
    jsObject([nodes |-> jsArray(bentNodes), edges |-> jsArray(bentEdges),
              collapsed |-> jsArray(<<"a">>)])
withoutKeys(text, keys) ==
    jsObject([k \in (DOMAIN text.fields) \ keys |-> text.fields[k]])
withCollapsed(text, value) ==
    jsObject([k \in DOMAIN text.fields |->
                 IF k = "collapsed" THEN value ELSE text.fields[k]])
Snapshots ==
    {bentStore, withoutKeys(bentStore, {"collapsed"}),
     withCollapsed(bentStore, jsNumber(5)), withCollapsed(bentStore, jsNumber(0)),
     withCollapsed(bentStore, jsNull), jsNull, jsUnparsable}
Files ==
    Snapshots \cup {jsonStore(nodes, edges, collapsed),
                    withoutKeys(bentStore, {"edges"}),
                    withoutKeys(bentStore, {"nodes", "edges", "collapsed"}),
                    jsNumber(7), jsArray(<<>>)}

\* the mount, effect by effect.  The load effect (lines 114-126) reads the item
\* and queues setNodes, setEdges and, unless new Set throws, setCollapsed.
loadedUpdate(saved, c) ==
    [saved |-> saved,
     nodes |-> importedNodes(saved.fields),
     edges |-> importedEdges(saved.fields),
     collapsed |-> IF collapsedThrows(saved.fields) THEN c
                   ELSE importedCollapsed(saved.fields)]

\* the collapse set once the queued updates are applied
queuedCollapsed == IF queued = <<>> THEN collapsed ELSE queued[Len(queued)].collapsed

MountLoad ==
    /\ UNCHANGED <<todo, connColor, connWidth>>
    /\ mountAt \in {"load1", "load2"}
    /\ IF storage.kind # "object"
       THEN UNCHANGED queued
       ELSE /\ {"nodes", "edges"} \subseteq DOMAIN storage.fields
            /\ queued' = Append(queued, loadedUpdate(storage, queuedCollapsed))
    /\ mountAt' = IF mountAt = "load1" THEN "save1" ELSE "save2"
    /\ UNCHANGED <<nodes, edges, selectedId, selectedEdgeId, collapsed, connLabel,
                   connType, currentTool, hiddenTargets, nextUuid, connectFrom,
                   storage>>

\* the save effect (lines 127-131) of the same mount: it stores the state of the
\* first render.  A development build under React.StrictMode then runs the mount
\* effects a second time; a production build goes on to render.
MountSave ==
    /\ UNCHANGED <<todo, connColor, connWidth>>
    /\ mountAt \in {"save1", "save2"}
    /\ storage' = jsonStore(nodes, edges, collapsed)
    /\ mountAt' \in IF mountAt = "save1" THEN {"load2", "render"} ELSE {"render"}
    /\ UNCHANGED <<nodes, edges, selectedId, selectedEdgeId, collapsed, connLabel,
                   connType, currentTool, hiddenTargets, nextUuid, connectFrom,
                   queued>>

\* the render after the mount effects: the queued updates are applied in order,
\* and the save effect stores the result
MountRender ==
    /\ UNCHANGED <<todo, connColor, connWidth>>
    /\ mountAt = "render"
    /\ IF queued = <<>>
       THEN UNCHANGED <<nodes, edges, collapsed>>
       ELSE /\ nodes' = queued[Len(queued)].nodes
            /\ edges' = queued[Len(queued)].edges
            /\ collapsed' = queued[Len(queued)].collapsed
    /\ queued' = <<>>
    /\ mountAt' = "done"
    /\ UNCHANGED <<selectedId, selectedEdgeId, connLabel, connType, currentTool,
                   nextUuid, connectFrom>>
    /\ Render
    /\ SaveEffect

\* what the local storage may hold when the editor is mounted
StoredItems == Snapshots \cup {jsNoItem}

\* the editor as constructed, before its mount effects
InitMount ==
    /\ AtMount
    /\ hiddenTargets = {}
    /\ storage \in StoredItems
    /\ mountAt = "load1"
    /\ queued = <<>>
    /\ todo = todoClosed

(* The to-do page, Todo.js. An instant is a whole number of clock ticks from *)
(* the first tick of 1 January, TicksPerDay ticks to the day, in local time  *)
(* without clock changes and in years of 365 days. A task is its id, title,  *)
(* deadline, recurrence and completed flag (undefined while the key is       *)
(* absent, else "true" or "false"); an absent storage item and "[]" are both *)
(* the empty list, which is how line 30 reads them.                          *)

\* the mind-map editor, which the to-do page leaves alone
editorState == <<nodes, edges, selectedId, selectedEdgeId, collapsed,
                 connLabel, connType, currentTool, hiddenTargets, nextUuid,
                 connectFrom, storage, mountAt, queued, connColor, connWidth>>

dayOf(instant) == instant \div TicksPerDay
timeOf(instant) == instant % TicksPerDay
atTime(day, time) == day * TicksPerDay + time

\* the day the page is opened: 11 March
LoadDay == 69

\* const now = new Date(), line 33: the second tick of that day
now == atTime(LoadDay, 1)

MonthLengths == <<31, 28, 31, 30, 31, 30, 31, 31, 30, 31, 30, 31>>

\* the day the m-th month begins, months counted on from January of year one
RECURSIVE monthStart(_)
monthStart(m) ==
    IF m <= 1 THEN 0
    ELSE monthStart(m - 1) + MonthLengths[((m - 2) % 12) + 1]

monthOf(day) ==
    CHOOSE m \in 1..24 : monthStart(m) <= day /\ day < monthStart(m + 1)

\* d.setMonth(d.getMonth() + 1): the same day of the next month, a day past
\* the end of that month running on into the month after
setNextMonth(day) ==
    monthStart(monthOf(day) + 1) + (day - monthStart(monthOf(day)))

\* addIntervalToDate, lines 13-19: the time of day is kept; any other
\* recurrence returns the date
addIntervalToDate(instant, recurrence) ==
    CASE recurrence = "daily" -> instant + TicksPerDay
      [] recurrence = "weekly" -> instant + 7 * TicksPerDay
      [] recurrence = "monthly" ->
            atTime(setNextMonth(dayOf(instant)), timeOf(instant))
      [] OTHER -> instant

\* t.recurrence && t.recurrence !== "none", line 35
recurs(t) == t.recurrence \notin {Undefined, "", "none"}

\* a test of the days alone, whatever the time of day
pastDueByDay(dl) == dayOf(dl) < dayOf(now)

\* dl < now, line 38: a comparison of instants
pastDue(dl) == dl < now

\* the recurrences the form offers, lines 181-184, which are the recurrences
\* of the tasks the page stores
FormRecurrences == {"none", "daily", "weekly", "monthly"}

\* the deadlines of stored tasks: 31 January, the load day before and at the
\* load time, 14 March
StoredDeadlines ==
    {atTime(30, 0), atTime(LoadDay, 0), now, atTime(LoadDay + 3, 0)}

\* the ids generateId() returns, in the order it returns them; all distinct
TaskIds == <<"t1", "t2", "t3", "t4", "t5">>

Titles == {"", "essay"}

\* a task as handleSubmit stores it, lines 91-93
storedTask(k, deadline, recurrence) ==
    [id |-> TaskIds[k], title |-> "essay", deadline |-> deadline,
     recurrence |-> recurrence, completed |-> Undefined]

\* the task lists of the storage key "smp_tasks_v1"
TaskLists ==
    UNION {{[k \in 1..n |-> storedTask(k, ds[k], rs[k])] :
               ds \in [1..n -> StoredDeadlines], rs \in [1..n -> FormRecurrences]} :
           n \in 0..MaxTasks}

\* the index of the task with an id, 0 when there is none
taskAt(id) ==
    IF \E k \in 1..Len(todo.tasks) : todo.tasks[k].id = id
    THEN CHOOSE k \in 1..Len(todo.tasks) : todo.tasks[k].id = id
    ELSE 0

TaskIdsShown == {todo.tasks[k].id : k \in 1..Len(todo.tasks)}

\* the page is mounted, lines 22-25: no tasks, the default form, no modal
TodoOpen ==
    /\ todo.at \in {"closed", "ready"}
    /\ todo' = [todo EXCEPT !.at = "load", !.run = 1, !.tasks = <<>>,
                            !.form = defaultForm, !.isEditing = FALSE,
                            !.showModal = FALSE]
    /\ UNCHANGED editorState

\* lines 28-32: raw ? JSON.parse(raw) : [], changed = false
TodoLoad ==
    /\ todo.at = "load"
    /\ todo' = [todo EXCEPT !.at = "map", !.loaded = todo.stored, !.i = 1,
                            !.changed = FALSE]
    /\ UNCHANGED editorState

\* lines 37-41: one turn of the while loop on the task the map is at
TodoAdvance ==
    /\ todo.at = "map"
    /\ todo.i <= Len(todo.loaded)
    /\ recurs(todo.loaded[todo.i])
    /\ pastDue(todo.loaded[todo.i].deadline)
    /\ todo' = [todo EXCEPT
                  !.loaded[todo.i].deadline =
                      addIntervalToDate(todo.loaded[todo.i].deadline,
                                        todo.loaded[todo.i].recurrence),
                  !.changed = TRUE]
    /\ UNCHANGED editorState

\* lines 34-43: the map goes on to the next task when the loop is over, or
\* was never entered
TodoReturn ==
    /\ todo.at = "map"
    /\ todo.i <= Len(todo.loaded)
    /\ ~(recurs(todo.loaded[todo.i]) /\ pastDue(todo.loaded[todo.i].deadline))
    /\ todo' = [todo EXCEPT !.i = todo.i + 1]
    /\ UNCHANGED editorState

\* lines 46-50: the list is stored if it changed, and setTasks(loaded) waits
\* for the next render
TodoFinish ==
    /\ todo.at = "map"
    /\ todo.i > Len(todo.loaded)
    /\ todo' = [todo EXCEPT
                  !.at = "save",
                  !.stored = IF todo.changed THEN todo.loaded ELSE todo.stored,
                  !.queued = Append(todo.queued, todo.loaded),
                  !.loaded = <<>>, !.i = 0, !.changed = FALSE]
    /\ UNCHANGED editorState

\* the save effect, lines 70-73, of the same mount: it stores the tasks of the
\* first render.  A development build under React.StrictMode then runs the mount
\* effects a second time; a production build goes on to render.
TodoSave ==
    /\ todo.at = "save"
    /\ \E next \in (IF todo.run = 1 THEN {"load", "render"} ELSE {"render"}) :
          todo' = [todo EXCEPT !.stored = todo.tasks, !.at = next,
                               !.run = IF next = "load" THEN 2 ELSE todo.run]
    /\ UNCHANGED editorState

\* the render after the mount effects: the last setTasks of the mount gives the
\* tasks, and the save effect stores them
TodoRender ==
    /\ todo.at = "render"
    /\ todo' = [todo EXCEPT !.at = "ready", !.run = 1,
                            !.tasks = todo.queued[Len(todo.queued)],
                            !.stored = todo.queued[Len(todo.queued)],
                            !.queued = <<>>]
    /\ UNCHANGED editorState

\* setTasks(f) in a handler: the render that follows runs the save effect,
\* lines 70-73, on the new tasks
withTasks(page, tasks) == [page EXCEPT !.tasks = tasks, !.stored = tasks]

\* resetForm, lines 75-79
formReset(page) ==
    [page EXCEPT !.form = defaultForm, !.isEditing = FALSE, !.showModal = FALSE]

\* the button Add New Task, lines 227-231
OpenAddForm ==
    /\ todo.at = "ready"
    /\ todo' = [todo EXCEPT !.form = defaultForm, !.isEditing = FALSE,
                            !.showModal = TRUE]
    /\ UNCHANGED editorState

\* the buttons Close and Cancel, lines 171 and 212
ResetForm ==
    /\ todo.at = "ready"
    /\ todo' = formReset(todo)
    /\ UNCHANGED editorState

\* the title input, line 177
SetFormTitle(title) ==
    /\ todo.at = "ready"
    /\ todo' = [todo EXCEPT !.form.title = title]
    /\ UNCHANGED editorState

\* the recurrence select, line 180
SetFormRecurrence(recurrence) ==
    /\ todo.at = "ready"
    /\ todo' = [todo EXCEPT !.form.recurrence = recurrence]
    /\ UNCHANGED editorState

\* the deadline input, lines 200-204: v ? new Date(v).toISOString() : ''
SetFormDeadline(deadline) ==
    /\ todo.at = "ready"
    /\ todo' = [todo EXCEPT !.form.deadline = deadline]
    /\ UNCHANGED editorState

\* a day picked in the calendar, lines 130-135: the first tick of that day
CalendarSelect(day) ==
    /\ todo.at = "ready"
    /\ todo' = [todo EXCEPT !.form.deadline = atTime(day, 0), !.showModal = TRUE]
    /\ UNCHANGED editorState

\* handleEdit, lines 97-102: setForm({ ...task })
HandleEdit(id) ==
    /\ todo.at = "ready"
    /\ taskAt(id) # 0
    /\ todo' = [todo EXCEPT !.form = todo.tasks[taskAt(id)], !.isEditing = TRUE,
                            !.showModal = TRUE]
    /\ UNCHANGED editorState

\* { ...t, ...form }, line 86: the keys of the form replace those of the task
merged(t, form) ==
    [id |-> form.id, title |-> form.title, deadline |-> form.deadline,
     recurrence |-> form.recurrence,
     completed |-> IF form.completed = Undefined THEN t.completed
                   ELSE form.completed]

\* { ...form, id: generateId(), createdAt }, line 91
newTask(form, id) == [form EXCEPT !.id = id]

\* handleSubmit, lines 81-95
HandleSubmit ==
    /\ todo.at = "ready"
    /\ IF todo.form.title = "" \/ todo.form.deadline = NoDeadline
       THEN UNCHANGED todo
       ELSE IF todo.isEditing
            THEN todo' = formReset(withTasks(todo,
                             [k \in 1..Len(todo.tasks) |->
                                 IF todo.tasks[k].id = todo.form.id
                                 THEN merged(todo.tasks[k], todo.form)
                                 ELSE todo.tasks[k]]))
            ELSE /\ todo.nextId < MaxTasks
                 /\ todo' = [formReset(withTasks(todo,
                                <<newTask(todo.form, TaskIds[todo.nextId + 1])>>
                                    \o todo.tasks))
                             EXCEPT !.nextId = todo.nextId + 1]
    /\ UNCHANGED editorState

\* handleDelete, lines 104-107, on either answer to window.confirm
HandleDelete(id, confirmed) ==
    /\ todo.at = "ready"
    /\ IF ~confirmed
       THEN UNCHANGED todo
       ELSE todo' = withTasks(todo, SelectSeq(todo.tasks, LAMBDA t : t.id # id))
    /\ UNCHANGED editorState

\* !t.completed
negated(completed) == IF completed = "true" THEN "false" ELSE "true"

\* toggleComplete, lines 109-111
ToggleComplete(id) ==
    /\ todo.at = "ready"
    /\ todo' = withTasks(todo,
                  [k \in 1..Len(todo.tasks) |->
                      IF todo.tasks[k].id = id
                      THEN [todo.tasks[k] EXCEPT !.completed = negated(@)]
                      ELSE todo.tasks[k]])
    /\ UNCHANGED editorState

\* handleAdvanceOnce, lines 113-122, while the calendar of the model lasts
HandleAdvanceOnce(id) ==
    /\ todo.at = "ready"
    /\ \A k \in 1..Len(todo.tasks) : dayOf(todo.tasks[k].deadline) <= MaxDay
    /\ todo' = withTasks(todo,
                  [k \in 1..Len(todo.tasks) |->
                      IF todo.tasks[k].id = id /\ recurs(todo.tasks[k])
                      THEN [todo.tasks[k] EXCEPT
                              !.deadline = addIntervalToDate(@, todo.tasks[k].recurrence)]
                      ELSE todo.tasks[k]])
    /\ UNCHANGED editorState

\* the to-do page is opened on some stored task list
InitTodo ==
    /\ nodes = <<studyNode("root")>>
    /\ edges = <<>>
    /\ selectedId = "root"
    /\ selectedEdgeId = Null
    /\ collapsed = <<>>
    /\ connLabel = ""
    /\ connType = "one-way"
    /\ connColor = "#4f46e5"
    /\ connWidth = jsNumber(2)
    /\ currentTool = "one-way"
    /\ hiddenTargets = {}
    /\ nextUuid = 0
    /\ connectFrom = Null
    /\ storage = jsonStore(nodes, edges, collapsed)
    /\ mountAt = "done"
    /\ queued = <<>>
    /\ \E list \in TaskLists :
           todo = [todoClosed EXCEPT !.at = "load", !.stored = list,
                                     !.nextId = Len(list)]

\* the load effect, lines 27-50, a step at a time
TodoScript == TodoLoad \/ TodoAdvance \/ TodoReturn \/ TodoFinish

\* the tasks whose button Advance is rendered, line 252
Advanceable ==
    {todo.tasks[k].id : k \in {j \in 1..Len(todo.tasks) :
                                  todo.tasks[j].recurrence # "none"}}

\* the first row of the task list
FirstTask == IF todo.tasks = <<>> THEN {} ELSE {todo.tasks[1].id}

\* the page opened on a stored list, its first task advanced, ticked or deleted,
\* and the page opened again on what that left in storage
NextTodo ==
    \/ TodoLoad
    \/ TodoAdvance
    \/ TodoReturn
    \/ TodoFinish
    \/ TodoSave
    \/ TodoRender
    \/ \E id \in FirstTask \cap Advanceable : HandleAdvanceOnce(id)
    \/ \E id \in FirstTask : ToggleComplete(id)
    \/ \E id \in FirstTask : HandleDelete(id, TRUE)
    \/ todo.at = "ready" /\ TodoOpen

\* the effect is one synchronous run of the script: it goes on while it can
SpecTodo == InitTodo /\ [][NextTodo]_vars /\ WF_vars(TodoScript)

\* the deadlines the form is given
FormDeadlines == {NoDeadline, atTime(LoadDay, 0), atTime(LoadDay + 3, 1)}

\* tasks added and edited through the form, on a page opened without tasks
NextTodoForm ==
    \/ TodoLoad
    \/ TodoFinish
    \/ TodoSave
    \/ TodoRender
    \/ OpenAddForm
    \/ ResetForm
    \/ \E title \in Titles : SetFormTitle(title)
    \/ \E recurrence \in {"none", "weekly"} : SetFormRecurrence(recurrence)
    \/ \E deadline \in FormDeadlines : SetFormDeadline(deadline)
    \/ CalendarSelect(LoadDay + 1)
    \/ \E id \in TaskIdsShown : HandleEdit(id)
    \/ HandleSubmit
    \/ \E id \in TaskIdsShown : ToggleComplete(id)
    \/ \E id \in TaskIdsShown, confirmed \in BOOLEAN : HandleDelete(id, confirmed)

SpecTodoForm == InitTodo /\ todo.stored = <<>> /\ [][NextTodoForm]_vars

----------------------------------------------------------------------------
(* The editor: any handler, on what the screen offers *)

VisibleEdgeIds == {visibleEdges[i].id : i \in 1..Len(visibleEdges)}

\* the rendered nodes that carry a collapse toggle (StudyNode, lines 29-48)
ToggleIds ==
    {decoratedNodes[i].id : i \in {j \in 1..Len(decoratedNodes) :
                                      decoratedNodes[j].type = "study"}}

TemplateTypes == {"exam", "research", "planner"}

Next ==
    \/ \E tool \in Tools : SelectTool(tool)
    \/ \E v \in ConnTypes : SetConnType(v)
    \/ \E l \in ConnLabels : SetConnLabel(l)
    \/ \E colour \in ConnColours : SetConnColor(colour)
    \/ \E text \in ConnWidths : SetConnWidth(text)
    \/ \E s \in Connectable, t \in Connectable : OnConnect(s, t)
    \/ \E n \in RenderedIds \cup {Null}, e \in VisibleEdgeIds \cup {Null} :
          OnSelectionChange(n, e)
    \/ OnKeyDelete
    \/ OnKeyShiftN
    \/ OnPaneClick
    \/ AddChild
    \/ DeleteSelected
    \/ DeleteSelectedEdge
    \/ \E edgeId \in EdgeIds : DeleteEdge(edgeId)
    \/ \E id \in ToggleIds : ToggleCollapse(id)
    \/ \E edgeId \in EdgeIds : SplitEdgeToWaypoint(edgeId)
    \/ \E edgeId \in VisibleEdgeIds : OnEdgeDoubleClick(edgeId)
    \/ \E edgeId \in VisibleEdgeIds : OnEdgeClick(edgeId)
    \/ \E edgeId \in EdgeIds : RemoveWaypoint(edgeId)
    \/ \E type \in TemplateTypes : ApplyTemplate(type)
    \/ \E value \in EdgeLabels : SetSelectedEdgeLabel(value)
    \/ \E edgeId \in EdgeIds, value \in EdgeLabels : SetEdgeLabel(edgeId, value)
    \/ \E edgeId \in EdgeIds, v \in ArrowOptions : SetEdgeArrows(edgeId, v)
    \/ \E edgeId \in EdgeIds, colour \in EdgeColours : SetEdgeColour(edgeId, colour)
    \/ \E edgeId \in EdgeIds, width \in EdgeWidths : SetEdgeWidth(edgeId, width)
    \/ \E removed \in SUBSET RenderedIds : OnNodesChange(removed)
    \/ \E removed \in SUBSET VisibleEdgeIds : OnEdgesChange(removed)
    \/ \E text \in Files : ImportJSON(text)
    \/ MountLoad
    \/ MountSave
    \/ MountRender
    \/ TodoOpen
    \/ TodoLoad
    \/ TodoAdvance
    \/ TodoReturn
    \/ TodoFinish
    \/ TodoSave
    \/ TodoRender
    \/ OpenAddForm
    \/ ResetForm
    \/ \E title \in Titles : SetFormTitle(title)
    \/ \E recurrence \in FormRecurrences : SetFormRecurrence(recurrence)
    \/ \E deadline \in StoredDeadlines \cup {NoDeadline} : SetFormDeadline(deadline)
    \/ \E day \in 0..MaxDay : CalendarSelect(day)
    \/ \E id \in TaskIdsShown : HandleEdit(id)
    \/ HandleSubmit
    \/ \E id \in TaskIdsShown, confirmed \in BOOLEAN : HandleDelete(id, confirmed)
    \/ \E id \in TaskIdsShown : ToggleComplete(id)
    \/ \E id \in Advanceable : HandleAdvanceOnce(id)

\* every gesture, in any order, while uuid() has ids left
Spec == Init /\ [][Next]_vars

----------------------------------------------------------------------------
(* The same handlers, a group of gestures at a time *)

\* the node store: add, select, delete, collapse
NextStore ==
    \/ AddChild /\ nextUuid' <= MaxStoreUuid
    \/ OnKeyShiftN /\ nextUuid' <= MaxStoreUuid
    \/ \E n \in RenderedIds \cup {Null}, e \in VisibleEdgeIds \cup {Null} :
          OnSelectionChange(n, e)
    \/ OnKeyDelete
    \/ DeleteSelected
    \/ DeleteSelectedEdge
    \/ \E edgeId \in EdgeIds : DeleteEdge(edgeId)
    \/ \E id \in ToggleIds : ToggleCollapse(id)

SpecStore == Init /\ [][NextStore]_vars

\* the templates, and what can follow them without a new selection
NextTemplate ==
    \/ \E type \in TemplateTypes : ApplyTemplate(type) /\ nextUuid' <= MaxTemplateUuid
    \/ AddChild /\ nextUuid' <= MaxTemplateUuid
    \/ OnKeyDelete
    \/ DeleteSelected
    \/ \E edgeId \in EdgeIds : DeleteEdge(edgeId)
    \/ \E id \in ToggleIds : ToggleCollapse(id)

SpecTemplate == Init /\ [][NextTemplate]_vars

\* the tools that differ in what a connect gesture builds
TopologyTools == {"one-way", "informational", "node", "waypoint"}

\* connections and waypoints
NextTopology ==
    \/ \E tool \in TopologyTools : SelectTool(tool)
    \/ \E s \in Connectable, t \in Connectable : OnConnect(s, t)
    \/ \E edgeId \in EdgeIds : DeleteEdge(edgeId)
    \/ \E edgeId \in EdgeIds : SplitEdgeToWaypoint(edgeId)
    \/ \E edgeId \in VisibleEdgeIds : OnEdgeDoubleClick(edgeId)
    \/ \E edgeId \in VisibleEdgeIds : OnEdgeClick(edgeId)
    \/ \E edgeId \in EdgeIds : RemoveWaypoint(edgeId)

SpecTopology == Init /\ [][NextTopology]_vars

\* the connection tool and its pending arrow mode
NextTool ==
    \/ \E tool \in Tools : SelectTool(tool)
    \/ \E v \in ConnTypes : SetConnType(v)
    \/ \E colour \in ConnColours : SetConnColor(colour)
    \/ \E s \in Connectable, t \in Connectable :
          OnConnect(s, t) /\ nextUuid' <= MaxToolUuid

SpecTool == Init /\ [][NextTool]_vars

\* a connect drag interleaved with the keyboard
NextGesture ==
    \/ connectFrom = Null /\ AddChild /\ nextUuid' <= MaxGestureUuid
    \/ \E n \in RenderedIds \cup {Null}, e \in VisibleEdgeIds \cup {Null} :
          connectFrom = Null /\ OnSelectionChange(n, e)
    \/ \E tool \in Tools : connectFrom = Null /\ SelectTool(tool)
    \/ \E s \in Connectable : OnConnectStart(s)
    \/ \E t \in Connectable : OnConnectEnd(t) /\ nextUuid' <= MaxGestureUuid
    \/ OnKeyDelete
    \/ OnKeyShiftN /\ nextUuid' <= MaxGestureUuid

SpecGesture == Init /\ [][NextGesture]_vars

\* the tools a pending label is tried with
LabelTools == {"informational", "node", "dotted"}

\* connections under a pending label
NextLabel ==
    \/ \E tool \in LabelTools : SelectTool(tool)
    \/ \E l \in ConnLabels : SetConnLabel(l)
    \/ \E s \in Connectable, t \in Connectable :
          OnConnect(s, t) /\ nextUuid' <= MaxLabelUuid

SpecLabel == Init /\ [][NextLabel]_vars

\* connections under the informational tool, between any two handles of a map
\* with children, for each pending arrow mode and label
NextInformational ==
    \/ AddChild /\ nextUuid' <= MaxInformationalUuid
    \/ SelectTool("informational")
    \/ \E v \in ConnTypes : SetConnType(v)
    \/ \E l \in ConnLabels : SetConnLabel(l)
    \/ \E s \in Connectable, t \in Connectable :
          /\ currentTool = "informational"
          /\ OnConnect(s, t)
          /\ nextUuid' <= MaxInformationalUuid

SpecInformational == Init /\ [][NextInformational]_vars

\* an id that names no edge
AbsentId == "absent"

\* waypoints on the edges of a template
NextWaypoint ==
    \/ \E type \in TemplateTypes : ApplyTemplate(type) /\ nextUuid' <= MaxWaypointUuid
    \/ \E edgeId \in EdgeIds \cup {AbsentId} :
          SplitEdgeToWaypoint(edgeId) /\ nextUuid' <= MaxWaypointUuid
    \/ \E edgeId \in EdgeIds : RemoveWaypoint(edgeId) /\ nextUuid' <= MaxWaypointUuid
    \/ \E edgeId \in EdgeIds : DeleteEdge(edgeId)

SpecWaypoint == Init /\ [][NextWaypoint]_vars

\* the tools the edges to split are drawn with
SplitTools == {"two-way", "dotted"}

\* splitting edges drawn from the root to another node under a pending label
NextSplit ==
    \/ AddChild /\ nextUuid' <= MaxSplitUuid
    \/ \E tool \in SplitTools : SelectTool(tool)
    \/ \E l \in ConnLabels : SetConnLabel(l)
    \/ \E t \in Connectable \ {"root"} :
          OnConnect("root", t) /\ nextUuid' <= MaxSplitUuid
    \/ \E edgeId \in EdgeIds \cup {AbsentId} :
          SplitEdgeToWaypoint(edgeId) /\ nextUuid' <= MaxSplitUuid

SpecSplit == Init /\ [][NextSplit]_vars

\* the tools the edges to bend are drawn with
BendTools == {"one-way", "two-way"}

\* bending edges drawn from the root to another node: by the callback itself, on
\* any edge id, and by a double click on an edge of the canvas
NextBend ==
    \/ AddChild /\ nextUuid' <= MaxBendUuid
    \/ \E tool \in BendTools : SelectTool(tool)
    \/ \E l \in ConnLabels : SetConnLabel(l)
    \/ \E t \in Connectable \ {"root"} :
          OnConnect("root", t) /\ nextUuid' <= MaxBendUuid
    \/ \E edgeId \in EdgeIds \cup {AbsentId} :
          insertWaypointAt(edgeId) /\ nextUuid' <= MaxBendUuid
    \/ \E edgeId \in VisibleEdgeIds :
          OnEdgeDoubleClick(edgeId) /\ nextUuid' <= MaxBendUuid

SpecBend == Init /\ [][NextBend]_vars

\* the three operations on waypoints, on the edges of a template and on any edge id
NextChain ==
    \/ \E type \in TemplateTypes : ApplyTemplate(type) /\ nextUuid' <= MaxChainUuid
    \/ \E edgeId \in EdgeIds \cup {AbsentId} :
          SplitEdgeToWaypoint(edgeId) /\ nextUuid' <= MaxChainUuid
    \/ \E edgeId \in EdgeIds \cup {AbsentId} :
          insertWaypointAt(edgeId) /\ nextUuid' <= MaxChainUuid
    \/ \E edgeId \in EdgeIds \cup {AbsentId} :
          RemoveWaypoint(edgeId) /\ nextUuid' <= MaxChainUuid

SpecChain == Init /\ [][NextChain]_vars

\* the first row of the edge list
FirstRow == IF edges = <<>> THEN {} ELSE {edges[1].id}

\* importing a file, and editing what it gives
NextPersist ==
    \/ \E text \in Files : ImportJSON(text)
    \/ \E value \in EdgeLabels : SetSelectedEdgeLabel(value)
    \/ \E edgeId \in FirstRow, value \in EdgeLabels : SetEdgeLabel(edgeId, value)
    \/ \E edgeId \in FirstRow, v \in ArrowOptions : SetEdgeArrows(edgeId, v)
    \/ \E edgeId \in FirstRow, colour \in EdgeColours : SetEdgeColour(edgeId, colour)
    \/ \E edgeId \in FirstRow, width \in EdgeWidths : SetEdgeWidth(edgeId, width)
    \/ \E e \in FirstRow \cap VisibleEdgeIds : OnSelectionChange(Null, e)
    \/ AddChild /\ nextUuid' <= MaxPersistUuid
    \/ \E id \in ToggleIds : ToggleCollapse(id)
    \/ \E edgeId \in VisibleEdgeIds :
          OnEdgeDoubleClick(edgeId) /\ nextUuid' <= MaxPersistUuid

SpecPersist == Init /\ [][NextPersist]_vars

\* collapsing any node of the store, deleting nodes and edges, and the three
\* operations on waypoints
NextCollapse ==
    \/ AddChild /\ nextUuid' <= MaxCollapseUuid
    \/ \E id \in NodeIds : ToggleCollapse(id)
    \/ DeleteSelected
    \/ \E edgeId \in EdgeIds : DeleteEdge(edgeId)
    \/ \E edgeId \in EdgeIds :
          SplitEdgeToWaypoint(edgeId) /\ nextUuid' <= MaxCollapseUuid
    \/ \E edgeId \in VisibleEdgeIds :
          OnEdgeDoubleClick(edgeId) /\ nextUuid' <= MaxCollapseUuid
    \/ \E edgeId \in EdgeIds : RemoveWaypoint(edgeId) /\ nextUuid' <= MaxCollapseUuid
    \/ \E id \in RenderedIds : OnNodesChange({id})
    \/ \E edgeId \in VisibleEdgeIds : OnEdgesChange({edgeId})

SpecCollapse == Init /\ [][NextCollapse]_vars

\* connect gestures under the Waypoint tool, for each pending arrow mode
NextDefault ==
    \/ AddChild /\ nextUuid' <= MaxDefaultUuid
    \/ \E tool \in {"one-way", "waypoint"} : SelectTool(tool)
    \/ \E v \in ConnTypes : SetConnType(v)
    \/ \E text \in ConnWidths : SetConnWidth(text)
    \/ \E s \in Connectable, t \in Connectable :
          currentTool = "waypoint" /\ OnConnect(s, t) /\ nextUuid' <= MaxDefaultUuid

SpecDefault == Init /\ [][NextDefault]_vars

\* the mount on each item the local storage may hold, then some editing
NextStartup ==
    \/ MountLoad
    \/ MountSave
    \/ MountRender
    \/ mountAt = "done" /\ AddChild /\ nextUuid' <= MaxStartupUuid
    \/ \E id \in ToggleIds : mountAt = "done" /\ ToggleCollapse(id)
    \/ \E edgeId \in VisibleEdgeIds :
          mountAt = "done" /\ OnEdgeDoubleClick(edgeId) /\ nextUuid' <= MaxStartupUuid

SpecStartup == InitMount /\ [][NextStartup]_vars

\* a type that is none of the three templates
OtherType == "other"

\* applying a template, or none, to a map with children and collapsed nodes
NextApply ==
    \/ \E type \in TemplateTypes \cup {OtherType} :
          ApplyTemplate(type) /\ nextUuid' <= MaxApplyUuid
    \/ AddChild /\ nextUuid' <= MaxApplyUuid
    \/ \E id \in ToggleIds : ToggleCollapse(id)

SpecApply == Init /\ [][NextApply]_vars

\* a file that holds an empty object: importing it empties the store
emptyFile == withoutKeys(bentStore, {"nodes", "edges", "collapsed"})

\* adding children under a selected node, under no selection and in an empty store
NextChild ==
    \/ AddChild /\ nextUuid' <= MaxChildUuid
    \/ \E n \in RenderedIds \cup {Null} : OnSelectionChange(n, Null)
    \/ OnKeyDelete
    \/ ImportJSON(emptyFile)

SpecChild == Init /\ [][NextChild]_vars

----------------------------------------------------------------------------
(* computeHiddenTargets on its own: every edge list of at most MaxHidEdges   *)
(* edges over three ids, and every collapse set over them in every order    *)

HidIds == {"root", "a", "b"}
HidEdgeNames == <<"e1", "e2", "e3", "e4", "e5", "e6">>

HidEdgeLists ==
    UNION {[1..n -> HidIds \X HidIds] : n \in 0..MaxHidEdges}

InitHidden ==
    /\ \E ends \in HidEdgeLists :
          edges = [i \in 1..Len(ends) |->
                      arrowEdge(HidEdgeNames[i], ends[i][1], ends[i][2])]
    /\ nodes = <<studyNode("root"), studyNode("a"), studyNode("b")>>
    /\ selectedId = "root"
    /\ selectedEdgeId = Null
    /\ collapsed = <<>>
    /\ connLabel = ""
    /\ connType = "one-way"
    /\ connColor = "#4f46e5"
    /\ connWidth = jsNumber(2)
    /\ currentTool = "one-way"
    /\ hiddenTargets = {}
    /\ nextUuid = 0
    /\ connectFrom = Null
    /\ storage = jsonStore(nodes, edges, collapsed)
    /\ mountAt = "done"
    /\ queued = <<>>
    /\ todo = todoClosed

\* toggleCollapse on any id of the store, rendered or not
NextHidden == \E id \in HidIds : ToggleCollapse(id)

SpecHidden == InitHidden /\ [][NextHidden]_vars

----------------------------------------------------------------------------
(* Vocabulary of the properties *)

\* targets of the edges that leave a member of S
Successors(S, es) == {es[i].target : i \in {j \in 1..Len(es) : es[j].source \in S}}

RECURSIVE ClosedUnderSuccessors(_, _)
ClosedUnderSuccessors(R, es) ==
    LET more == R \cup Successors(R, es)
    IN IF more = R THEN R ELSE ClosedUnderSuccessors(more, es)

\* the ids reachable from a member of C by a path of one or more edges, source to target
Descendants(C, es) == ClosedUnderSuccessors(Successors(C, es), es)

\* a set as the array [...set], in some order
RECURSIVE asQueue(_)
asQueue(S) == IF S = {} THEN <<>>
              ELSE LET x == CHOOSE y \in S : TRUE IN <<x>> \o asQueue(S \ {x})

\* arrow mode of an edge: which ends carry an arrowhead
arrowMode(e) ==
    CASE e.markerStart /\ e.markerEnd -> "Bidirectional"
      [] ~e.markerStart /\ e.markerEnd -> "Forward"
      [] e.markerStart /\ ~e.markerEnd -> "Backward"
      [] OTHER -> "None"

\* the step appends exactly one edge s -> t to the edge list and leaves the nodes alone
AppendsOneEdge(s, t) ==
    /\ nodes' = nodes
    /\ Len(edges') = Len(edges) + 1
    /\ SubSeq(edges', 1, Len(edges)) = edges
    /\ edges'[Len(edges')].source = s
    /\ edges'[Len(edges')].target = t
    /\ edges'[Len(edges')].id \notin EdgeIds

\* the step appends exactly one node of the given type, with a fresh id
AppendsOneNode(type) ==
    /\ Len(nodes') = Len(nodes) + 1
    /\ SubSeq(nodes', 1, Len(nodes)) = nodes
    /\ nodes'[Len(nodes')].type = type
    /\ nodes'[Len(nodes')].id \notin NodeIds

\* the arrow mode the pending setting stands for
pendingArrowMode ==
    CASE connType = "one-way" -> "Forward"
      [] connType = "two-way" -> "Bidirectional"
      [] connType = "none" -> "None"

\* the ids of the nodes of a node list
idsOf(ns) == {ns[i].id : i \in 1..Len(ns)}

\* the edge of the store with the given id
edgeOf(edgeId) == edges[findEdge(edges, edgeId)]

\* the ids of the waypoint nodes of the store
WaypointIds == {nodes[i].id : i \in {j \in 1..Len(nodes) : nodes[j].type = "waypoint"}}

\* the edges of the store that enter, and that leave, the node id
inbound(id) == {i \in 1..Len(edges) : edges[i].target = id}
outbound(id) == {i \in 1..Len(edges) : edges[i].source = id}

\* the waypoint removeWaypoint(edgeId) locates, Null when it locates none
locatedWaypoint(edgeId) ==
    LET w == findWaypoint(nodes, edges, edgeOf(edgeId))
    IN IF w = 0 THEN Null ELSE nodes[w].id

\* the store splitEdgeToWaypoint makes of the present one for its edge e, as
\* SplitEdgeToWaypoint builds it
afterSplit(e) ==
    [nodes |-> Append(nodes, waypointNode(uuid(1))),
     edges |-> removeEdge(edges, e.id) \o splitSegments(e, uuid(1), uuid(2), uuid(3))]

\* the store removeWaypoint makes of the store g for its edge seg, as
\* RemoveWaypoint builds it
afterRemove(g, seg) ==
    LET w == findWaypoint(g.nodes, g.edges, seg)
    IN IF w = 0 THEN g
       ELSE [nodes |-> removeNode(g.nodes, g.nodes[w].id),
             edges |-> splicedEdges(g.edges, g.nodes[w].id, uuid(4))]

\* a delete gesture: the Delete / Backspace key or the inspector's Delete button
DeleteGesture == OnKeyDelete \/ DeleteSelected

\* a style with a dash array
isDashed(style) == style.has /\ "strokeDasharray" \in DOMAIN style.props

----------------------------------------------------------------------------
(* Properties *)

\* C1: in every reachable state exactly one node of the store has the id 'root'.
ExactlyOneRoot == Cardinality({i \in 1..Len(nodes) : nodes[i].id = "root"}) = 1

\* C2: in every reachable state the source and the target of every edge are ids of
\* nodes of the store.
NoDanglingEdge ==
    \A i \in 1..Len(edges) : edges[i].source \in NodeIds /\ edges[i].target \in NodeIds

\* C3: a delete gesture made while 'root' is the selected node changes neither the
\* nodes nor the edges.
DeleteWithRootSelectedIsNoOp ==
    [][(selectedId = "root" /\ DeleteGesture) => (nodes' = nodes /\ edges' = edges)]_vars

\* C4: deleting a non-root node n of the store (n selected; by the Delete key with
\* no edge selected, or by the Delete button) removes exactly n from the nodes and
\* exactly the edges
\* with source or target n from the edges, and keeps every other node and edge as
\* it was, in the same order.
DeleteNodeFrame ==
    [][\A n \in NodeIds \ {"root"} :
          (selectedId = n /\ ((selectedEdgeId = Null /\ OnKeyDelete) \/ DeleteSelected)) =>
             /\ Range(nodes') = {x \in Range(nodes) : x.id # n}
             /\ Len(nodes') = Len(nodes) - 1
             /\ Range(edges') = {e \in Range(edges) : e.source # n /\ e.target # n}
             /\ Len(edges') = Cardinality({i \in 1..Len(edges) :
                                  edges[i].source # n /\ edges[i].target # n})
             /\ \A i, j \in 1..Len(edges') :
                   i < j => \E k, l \in 1..Len(edges) :
                               k < l /\ edges[k] = edges'[i] /\ edges[l] = edges'[j]
      ]_vars

\* C4 witness: two children were added one below the other and the second, u3, was
\* deleted: u3 and its edge u4 are gone, the node u1 and the edge u2 are still there.
DeleteNodeFrameWitness ==
    /\ nextUuid = 4
    /\ NodeIds = {"root", "u1"}
    /\ EdgeIds = {"u2"}

\* C5: a connect gesture under an edge-creating tool whose source or target is not
\* in the store is rejected: nodes and edges stay as they were.
ConnectToAbsentNodeIsRejected ==
    [][\A t \in Connectable :
          (currentTool # "node" /\ connectFrom \notin NodeIds /\ OnConnectEnd(t)) =>
             (nodes' = nodes /\ edges' = edges)
      ]_vars

\* C6: the hidden set is exactly the set of ids reachable from a collapsed id by one
\* or more edges, source to target; a collapsed id is hidden only if it is reachable.
HiddenIsDescendants == hiddenTargets = Descendants(CollapsedSet, edges)

\* C6 witness: root is collapsed, a is below root and b below a: a and b are hidden
\* and root, which no edge leads to, is not.
HiddenIsDescendantsWitness ==
    /\ collapsed = <<"root">>
    /\ hiddenTargets = {"a", "b"}
    /\ \E i \in 1..Len(edges) : edges[i].source = "a" /\ edges[i].target = "b"
    /\ \A i \in 1..Len(edges) : edges[i].source = "root" => edges[i].target = "a"

\* C7 as stated: computeHidden applied to its own output with the same edges gives
\* the output back.
HiddenIdempotent == computeHiddenTargets(asQueue(hiddenTargets), edges) = hiddenTargets

\* C7 amended: computeHidden gives the same set when its output is added to the
\* collapse set, and a subset of its output when applied to the output alone.
HiddenStable ==
    /\ computeHiddenTargets(collapsed \o asQueue(hiddenTargets \ CollapsedSet), edges)
          = hiddenTargets
    /\ computeHiddenTargets(asQueue(hiddenTargets), edges) \subseteq hiddenTargets

\* C7 witness: two ids are hidden, none of them collapsed, and applying
\* computeHidden to the hidden set alone loses one of them.
HiddenStableWitness ==
    /\ Cardinality(hiddenTargets) = 2
    /\ hiddenTargets \cap CollapsedSet = {}
    /\ computeHiddenTargets(asQueue(hiddenTargets), edges) # hiddenTargets

\* C8: a node that is collapsed and not hidden is among the rendered nodes.
CollapsedNodeIsRendered ==
    \A i \in 1..Len(nodes) :
        (nodes[i].id \in CollapsedSet /\ nodes[i].id \notin hiddenTargets)
            => nodes[i].id \in RenderedIds

\* C9: an edge is among the visible edges exactly when neither its source nor its
\* target is reachable from a collapsed id and its source is not collapsed; with
\* root collapsed and the single edge root -> a, the hidden set is {a} and no edge
\* is visible.
VisibleEdgeRule ==
    /\ \A i \in 1..Len(edges) :
          (edges[i] \in Range(visibleEdges)) <=>
             /\ edges[i].source \notin Descendants(CollapsedSet, edges)
             /\ edges[i].target \notin Descendants(CollapsedSet, edges)
             /\ edges[i].source \notin CollapsedSet
    /\ Range(visibleEdges) \subseteq Range(edges)
    /\ (/\ CollapsedSet = {"root"}
        /\ Len(edges) = 1
        /\ edges[1].source = "root"
        /\ edges[1].target = "a")
          => (hiddenTargets = {"a"} /\ visibleEdges = <<>>)

\* C9 witness: root is collapsed; of the edges root -> a and b -> a neither is
\* visible, the second because its target is hidden.
VisibleEdgeRuleWitness ==
    /\ collapsed = <<"root">>
    /\ Len(edges) = 2
    /\ edges[1].source = "root" /\ edges[1].target = "a"
    /\ edges[2].source = "b" /\ edges[2].target = "a"
    /\ visibleEdges = <<>>

\* C10 as stated: under the one-way tool a connect gesture adds exactly one edge
\* source -> target with an arrowhead at the target end only, and no node.
OneWayToolAddsForwardEdge ==
    [][\A s \in Connectable, t \in Connectable :
          (currentTool = "one-way" /\ OnConnect(s, t)) =>
             (AppendsOneEdge(s, t) /\ arrowMode(edges'[Len(edges')]) = "Forward")
      ]_vars

\* C10 amended: under the one-way tool a connect gesture adds exactly one edge
\* source -> target and no node; its arrow mode is Forward while the pending arrow
\* mode is one-way, as the tool button leaves it, Bidirectional once the pending
\* mode was set to two-way and None once it was set to none.
OneWayToolAddsPendingArrow ==
    [][\A s \in Connectable, t \in Connectable :
          (currentTool = "one-way" /\ OnConnect(s, t)) =>
             /\ AppendsOneEdge(s, t)
             /\ arrowMode(edges'[Len(edges')]) =
                   CASE connType = "one-way" -> "Forward"
                     [] connType = "two-way" -> "Bidirectional"
                     [] connType = "none" -> "None"
      ]_vars

\* C10 witness: the tool is one-way, the pending mode one-way, and the last edge,
\* built by the default branch of onConnect, has its only arrowhead at the target.
OneWayToolWitness ==
    /\ currentTool = "one-way"
    /\ connType = "one-way"
    /\ Len(edges) >= 2
    /\ ~isDashed(edges[Len(edges)].style)
    /\ arrowMode(edges[Len(edges)]) = "Forward"
    /\ arrowMode(edges[1]) = "Bidirectional"

\* C11: under the informational tool a connect gesture adds exactly one waypoint
\* node w and exactly two edges, source -> w and w -> target, neither with an
\* arrowhead at either end; the first carries the pending label (none when the
\* pending label is empty) and the second has no label.
InformationalToolAddsWaypointPair ==
    [][\A s \in Connectable, t \in Connectable :
          (currentTool = "informational" /\ OnConnect(s, t)) =>
             /\ AppendsOneNode("waypoint")
             /\ Len(edges') = Len(edges) + 2
             /\ SubSeq(edges', 1, Len(edges)) = edges
             /\ LET w == nodes'[Len(nodes')].id
                    a == edges'[Len(edges) + 1]
                    b == edges'[Len(edges) + 2]
                IN /\ a.source = s /\ a.target = w
                   /\ b.source = w /\ b.target = t
                   /\ arrowMode(a) = "None" /\ arrowMode(b) = "None"
                   /\ a.label = (IF connLabel = "" THEN Undefined ELSE connLabel)
                   /\ b.label = Undefined
                   /\ a.id # b.id /\ {a.id, b.id} \cap EdgeIds = {}
      ]_vars

\* C11 witness: the map had the child u1 and its edge u2 when an informational
\* connection u1 -> root was made under the pending label 'causes' and the
\* pending arrow mode two-way: waypoint u4, edge u5 from u1 with the label, edge
\* u6 to the root without, neither with an arrowhead, after the edge u2.
InformationalToolWitness ==
    /\ currentTool = "informational"
    /\ connType = "two-way"
    /\ nextUuid = 6
    /\ nodes = <<studyNode("root"), studyNode("u1"), waypointNode("u4")>>
    /\ Len(edges) = 3
    /\ edges[1].id = "u2" /\ arrowMode(edges[1]) = "Forward"
    /\ edges[2].source = "u1" /\ edges[2].target = "u4"
    /\ edges[2].label = "causes" /\ arrowMode(edges[2]) = "None"
    /\ edges[3].source = "u4" /\ edges[3].target = "root"
    /\ edges[3].label = Undefined /\ arrowMode(edges[3]) = "None"

\* C12 as stated: under the two-way tool a connect gesture adds exactly one edge
\* that is not dashed, Bidirectional unless the pending arrow mode is 'none', and
\* then without arrowhead.
TwoWayToolAddsBidirectionalEdge ==
    [][\A s \in Connectable, t \in Connectable :
          (currentTool = "two-way" /\ OnConnect(s, t)) =>
             /\ AppendsOneEdge(s, t)
             /\ ~isDashed(edges'[Len(edges')].style)
             /\ arrowMode(edges'[Len(edges')]) =
                   IF connType = "none" THEN "None" ELSE "Bidirectional"
      ]_vars

\* C12 amended: under the two-way tool a connect gesture adds exactly one edge that
\* is not dashed and no node; its arrow mode is Bidirectional while the pending
\* arrow mode is two-way, as the tool button leaves it, None once the pending mode
\* was set to none and Forward once it was set to one-way.
TwoWayToolAddsPendingArrow ==
    [][\A s \in Connectable, t \in Connectable :
          (currentTool = "two-way" /\ OnConnect(s, t)) =>
             /\ AppendsOneEdge(s, t)
             /\ ~isDashed(edges'[Len(edges')].style)
             /\ arrowMode(edges'[Len(edges')]) = pendingArrowMode
      ]_vars

\* C12 witness: the tool is two-way, the pending mode two-way, the last edge is a
\* solid Bidirectional one and the first, made after the mode was set to one-way,
\* is Forward.
TwoWayToolWitness ==
    /\ currentTool = "two-way"
    /\ connType = "two-way"
    /\ Len(edges) >= 2
    /\ ~isDashed(edges[Len(edges)].style)
    /\ arrowMode(edges[Len(edges)]) = "Bidirectional"
    /\ arrowMode(edges[1]) = "Forward"

\* C13: under the dotted tool a connect gesture adds exactly one edge, dashed, and
\* no node; its arrow mode is given by the pending arrow mode alone: one-way ->
\* Forward, two-way -> Bidirectional, none -> None.
DottedToolAddsDashedEdge ==
    [][\A s \in Connectable, t \in Connectable :
          (currentTool = "dotted" /\ OnConnect(s, t)) =>
             /\ AppendsOneEdge(s, t)
             /\ isDashed(edges'[Len(edges')].style)
             /\ arrowMode(edges'[Len(edges')]) = pendingArrowMode
      ]_vars

\* C13 witness: under the dotted tool, with the pending mode changed to two-way and
\* then to none and the pending colour changed in between, a dashed Bidirectional
\* edge and a dashed edge of the new colour with no arrowhead.
DottedToolWitness ==
    /\ currentTool = "dotted"
    /\ Len(edges) = 2
    /\ isDashed(edges[1].style) /\ arrowMode(edges[1]) = "Bidirectional"
    /\ isDashed(edges[2].style) /\ arrowMode(edges[2]) = "None"
    /\ edges[1].style.props.stroke = "#4f46e5"
    /\ edges[2].style.props.stroke = "#ff0000"

\* C14: under the node tool a connect gesture adds exactly one study node and
\* leaves the edges as they were, whatever the two endpoints.
NodeToolAddsNodeOnly ==
    [][\A s \in Connectable, t \in Connectable :
          (currentTool = "node" /\ OnConnect(s, t)) =>
             (AppendsOneNode("study") /\ edges' = edges)
      ]_vars

\* C14 witness: an edge u1 was drawn first, then a connect gesture was made under
\* the node tool: one more study node, u3, and still the one edge.
NodeToolWitness ==
    /\ currentTool = "node"
    /\ nextUuid = 3
    /\ NodeIds = {"root", "u3"}
    /\ EdgeIds = {"u1"}

\* C15: in every reachable state no edge has its source equal to its target.
NoSelfLoop == \A i \in 1..Len(edges) : edges[i].source # edges[i].target

\* C16: for every edge e of a reachable store with two different endpoints that are
\* nodes of the store, splitting e and then removing the waypoint through either of
\* the two segments gives the node set of before the split and the other edges
\* unchanged, followed by one edge with e's source and target in place of e.
SplitThenRemoveRestores ==
    \A i \in 1..Len(edges) :
        LET e == edges[i]
            g1 == afterSplit(e)
        IN (e.source # e.target /\ {e.source, e.target} \subseteq NodeIds) =>
              \A k \in {Len(g1.edges) - 1, Len(g1.edges)} :
                  LET g2 == afterRemove(g1, g1.edges[k])
                  IN /\ idsOf(g2.nodes) = NodeIds
                     /\ Len(g2.edges) = Len(edges)
                     /\ SubSeq(g2.edges, 1, Len(edges) - 1) = removeEdge(edges, e.id)
                     /\ g2.edges[Len(edges)].source = e.source
                     /\ g2.edges[Len(edges)].target = e.target

\* C17: removeWaypoint(edgeId) removes no node but a waypoint that is an endpoint
\* of the edge: when neither endpoint of the edge is a waypoint, nodes and edges
\* stay as they were, and otherwise every removed node is a waypoint endpoint of
\* the edge.
RemoveWaypointTouchesEdge ==
    [][\A edgeId \in EdgeIds :
          RemoveWaypoint(edgeId) =>
             LET e == edgeOf(edgeId)
                 touched == {e.source, e.target} \cap WaypointIds
             IN /\ touched = {} => (nodes' = nodes /\ edges' = edges)
                /\ NodeIds \ idsOf(nodes') \subseteq touched
      ]_vars

\* C18: removeWaypoint changes neither nodes nor edges when the waypoint it locates
\* does not have exactly one inbound and exactly one outbound edge.
RemoveWaypointNoOpIfIllFormed ==
    [][\A edgeId \in EdgeIds :
          (/\ RemoveWaypoint(edgeId)
           /\ locatedWaypoint(edgeId) # Null
           /\ ~(/\ Cardinality(inbound(locatedWaypoint(edgeId))) = 1
                /\ Cardinality(outbound(locatedWaypoint(edgeId))) = 1))
             => (nodes' = nodes /\ edges' = edges)
      ]_vars

\* C19: when the waypoint w that removeWaypoint locates has exactly one inbound edge
\* i and exactly one outbound edge o, the step removes w, i and o and appends one
\* edge from i's source to o's target with i's label and style and o's end marker:
\* one node fewer and one edge fewer.
RemoveWaypointJoins ==
    [][\A edgeId \in EdgeIds :
          (/\ RemoveWaypoint(edgeId)
           /\ locatedWaypoint(edgeId) # Null
           /\ Cardinality(inbound(locatedWaypoint(edgeId))) = 1
           /\ Cardinality(outbound(locatedWaypoint(edgeId))) = 1)
             => LET w == locatedWaypoint(edgeId)
                    i == edges[CHOOSE k \in inbound(w) : TRUE]
                    o == edges[CHOOSE k \in outbound(w) : TRUE]
                    joined == edges'[Len(edges')]
                IN /\ idsOf(nodes') = NodeIds \ {w}
                   /\ Len(nodes') = Len(nodes) - 1
                   /\ Len(edges') = Len(edges) - 1
                   /\ Range(SubSeq(edges', 1, Len(edges') - 1)) = Range(edges) \ {i, o}
                   /\ joined.id \notin EdgeIds
                   /\ joined.source = i.source /\ joined.target = o.target
                   /\ joined.label = i.label /\ joined.style = i.style
                   /\ joined.markerEnd = o.markerEnd
      ]_vars

\* C20: splitEdgeToWaypoint(edgeId) on an edge e of the store adds exactly one
\* waypoint node w and replaces e by the two edges e.source -> w and w -> e.target,
\* each with e's label, style, start marker and end marker; on an id that names no
\* edge it leaves nodes and edges as they were.
SplitReplacesEdgeByTwoSegments ==
    [][\A edgeId \in EdgeIds \cup {AbsentId} :
          SplitEdgeToWaypoint(edgeId) =>
             IF edgeId \in EdgeIds
             THEN LET e == edgeOf(edgeId)
                      w == nodes'[Len(nodes')].id
                      a == edges'[Len(edges)]
                      b == edges'[Len(edges) + 1]
                  IN /\ AppendsOneNode("waypoint")
                     /\ Len(edges') = Len(edges) + 1
                     /\ SubSeq(edges', 1, Len(edges) - 1) = removeEdge(edges, edgeId)
                     /\ Range(removeEdge(edges, edgeId)) = Range(edges) \ {e}
                     /\ a.source = e.source /\ a.target = w
                     /\ b.source = w /\ b.target = e.target
                     /\ \A x \in {a, b} :
                           /\ x.label = e.label /\ x.style = e.style
                           /\ x.markerStart = e.markerStart /\ x.markerEnd = e.markerEnd
                           /\ x.id \notin EdgeIds
                     /\ a.id # b.id
             ELSE nodes' = nodes /\ edges' = edges
      ]_vars

\* C20 witness: a dashed one-way edge root -> u1 labelled 'causes' was split: both
\* segments are dashed, labelled, and have the arrowhead at their target end.
SplitWitness ==
    /\ Len(edges) >= 2
    /\ \E w \in WaypointIds :
          LET a == edges[Len(edges) - 1]
              b == edges[Len(edges)]
          IN /\ a.source = "root" /\ a.target = w /\ b.source = w /\ b.target = "u1"
             /\ \A x \in {a, b} :
                   /\ x.label = "causes" /\ isDashed(x.style)
                   /\ arrowMode(x) = "Forward"


\* every waypoint of the node list ns has exactly one inbound and exactly one
\* outbound edge in the edge list es
wellFormedChain(ns, es) ==
    \A n \in {k \in 1..Len(ns) : ns[k].type = "waypoint"} :
       /\ Cardinality({i \in 1..Len(es) : es[i].target = ns[n].id}) = 1
       /\ Cardinality({i \in 1..Len(es) : es[i].source = ns[n].id}) = 1

\* C21: insertWaypointAt(edgeId) has the topological effect of splitEdgeToWaypoint:
\* on an edge e of the store it adds exactly one waypoint node w and replaces e by
\* the two edges e.source -> w and w -> e.target; on an id that names no edge it
\* leaves nodes and edges as they were.
InsertWaypointLikeSplit ==
    [][\A edgeId \in EdgeIds \cup {AbsentId} :
          insertWaypointAt(edgeId) =>
             IF edgeId \in EdgeIds
             THEN LET e == edgeOf(edgeId)
                      w == nodes'[Len(nodes')].id
                      a == edges'[Len(edges)]
                      b == edges'[Len(edges) + 1]
                  IN /\ AppendsOneNode("waypoint")
                     /\ Len(edges') = Len(edges) + 1
                     /\ SubSeq(edges', 1, Len(edges) - 1) = removeEdge(edges, edgeId)
                     /\ Range(removeEdge(edges, edgeId)) = Range(edges) \ {e}
                     /\ a.source = e.source /\ a.target = w
                     /\ b.source = w /\ b.target = e.target
                     /\ a.id \notin EdgeIds /\ b.id \notin EdgeIds /\ a.id # b.id
             ELSE nodes' = nodes /\ edges' = edges
      ]_vars

\* C22: insertWaypointAt on an edge e of the store makes a first segment
\* e.source -> w with e's start marker and label and no end marker, and a second
\* segment w -> e.target with e's end marker, no start marker and no label: the
\* path has e's arrowheads at its two extremities and none at the waypoint.
InsertDividesMarkers ==
    [][\A edgeId \in EdgeIds :
          insertWaypointAt(edgeId) =>
             LET e == edgeOf(edgeId)
                 w == nodes'[Len(nodes')].id
                 a == edges'[Len(edges)]
                 b == edges'[Len(edges) + 1]
             IN /\ a.source = e.source /\ a.target = w
                /\ a.markerStart = e.markerStart /\ a.label = e.label
                /\ a.markerEnd = FALSE
                /\ b.source = w /\ b.target = e.target
                /\ b.markerEnd = e.markerEnd
                /\ b.markerStart = FALSE /\ b.label = Undefined
      ]_vars

\* C22 witness: a two-way edge root -> u1 labelled 'causes' was bent: the first
\* segment has the label and the arrowhead at root only, the second has no label
\* and the arrowhead at u1 only.
InsertWitness ==
    /\ Len(edges) >= 2
    /\ \E w \in WaypointIds :
          LET a == edges[Len(edges) - 1]
              b == edges[Len(edges)]
          IN /\ a.source = "root" /\ a.target = w /\ b.source = w /\ b.target = "u1"
             /\ a.label = "causes" /\ arrowMode(a) = "Backward"
             /\ b.label = Undefined /\ arrowMode(b) = "Forward"

\* C23: when every waypoint has exactly one inbound and exactly one outbound edge,
\* it is so again after splitEdgeToWaypoint, insertWaypointAt or removeWaypoint,
\* whatever the edge id.
ChainPreserved ==
    [][(/\ wellFormedChain(nodes, edges)
        /\ \E edgeId \in EdgeIds \cup {AbsentId} :
              \/ SplitEdgeToWaypoint(edgeId)
              \/ insertWaypointAt(edgeId)
              \/ RemoveWaypoint(edgeId))
          => wellFormedChain(nodes', edges')
      ]_vars


\* a JSON text of the shape {nodes: list, edges: list, collapsed: list}
wellShaped(text) ==
    /\ text.kind = "object"
    /\ {"nodes", "edges", "collapsed"} \subseteq DOMAIN text.fields
    /\ \A k \in {"nodes", "edges", "collapsed"} : text.fields[k].kind = "array"

\* C24: an import of a text that cannot be parsed or is not of the shape
\* {nodes: list, edges: list, collapsed: list} changes none of nodes, edges and
\* the collapse set; an import of a text of that shape replaces all three.
ImportAllOrNothing ==
    [][\A text \in Files :
          ImportJSON(text) =>
             IF wellShaped(text)
             THEN /\ nodes' = text.fields["nodes"].items
                  /\ idsOf(edges') =
                        {text.fields["edges"].items[i]["id"] :
                            i \in 1..Len(text.fields["edges"].items)}
                  /\ Range(collapsed') = Range(text.fields["collapsed"].items)
             ELSE UNCHANGED <<nodes, edges, collapsed>>
      ]_vars

\* C25: the text written for the store, read back, gives the same nodes, the same
\* edges with the same endpoints, label, style and markers, and the same collapse
\* set.
SerializeRoundTrip ==
    LET f == jsonStore(nodes, edges, collapsed).fields
    IN /\ importedNodes(f) = nodes
       /\ importedEdges(f) = edges
       /\ ~collapsedThrows(f)
       /\ Range(importedCollapsed(f)) = CollapsedSet

\* C25 witness: a store with a collapsed node, a waypoint, an edge made by the
\* editor, edges with and without a label and with an arrowhead at either end,
\* and an edge whose colour was edited.
RoundTripWitness ==
    /\ WaypointIds # {} /\ collapsed # <<>>
    /\ \E i \in 1..Len(nodes) : nodes[i].id \in Range(UuidNames)
    /\ \E i \in 1..Len(edges) : edges[i].label = Undefined /\ edges[i].markerEnd
    /\ \E i \in 1..Len(edges) : edges[i].label = "causes" /\ edges[i].markerStart
    /\ \E i \in 1..Len(edges) : edges[i].style = withProp(storedStyle, "stroke", "#ff0000")

\* C26: when the snapshot read at startup cannot be parsed or is not of the shape
\* {nodes: list, edges: list, collapsed: list}, the store after the load effect is
\* the root node alone, no edge and an empty collapse set.
MalformedSnapshotGivesRoot ==
    [][(MountRender /\ (queued = <<>> \/ ~wellShaped(queued[1].saved))) =>
          /\ nodes' = <<studyNode("root")>>
          /\ edges' = <<>>
          /\ collapsed' = <<>>
      ]_vars


\* C27: deleting a node or an edge and splitting, inserting or removing a waypoint
\* leave the collapse set as it was, also when it holds the id of a removed node;
\* toggleCollapse(id) changes the membership of id and of no other id, and leaves
\* nodes and edges as they were.
CollapseSetIsNeverCompacted ==
    [][/\ (\/ DeleteGesture
           \/ DeleteSelectedEdge
           \/ \E removed \in SUBSET NodeIds : OnNodesChange(removed)
           \/ \E removed \in SUBSET EdgeIds : OnEdgesChange(removed)
           \/ \E edgeId \in EdgeIds :
                 \/ DeleteEdge(edgeId)
                 \/ SplitEdgeToWaypoint(edgeId)
                 \/ insertWaypointAt(edgeId)
                 \/ RemoveWaypoint(edgeId))
             => collapsed' = collapsed
       /\ \A id \in NodeIds :
             ToggleCollapse(id) =>
                /\ nodes' = nodes /\ edges' = edges
                /\ Range(collapsed') = IF id \in CollapsedSet
                                       THEN CollapsedSet \ {id}
                                       ELSE CollapsedSet \cup {id}
      ]_vars

\* C27 witness: the child u1 was collapsed and then deleted, the root is collapsed
\* too, and the collapse set still holds u1.
StaleCollapsedWitness ==
    /\ "u1" \notin NodeIds
    /\ CollapsedSet = {"u1", "root"}

\* C28: under the Waypoint tool a connect gesture adds exactly one edge
\* source -> target, solid, and no node; its arrow mode is the pending one.
WaypointToolTakesDefaultBranch ==
    [][\A s \in Connectable, t \in Connectable :
          (currentTool = "waypoint" /\ OnConnect(s, t)) =>
             /\ AppendsOneEdge(s, t)
             /\ edges'[Len(edges')].style = baseStyle
             /\ arrowMode(edges'[Len(edges')]) = pendingArrowMode
      ]_vars

\* C28 witness: under the Waypoint tool, with the pending arrow mode none and the
\* pending width 5, an edge u1 -> root was drawn: no node was added and the edge
\* has no arrowhead and the width 5.
WaypointToolWitness ==
    /\ currentTool = "waypoint" /\ connType = "none"
    /\ NodeIds = {"root", "u1"}
    /\ Len(edges) = 2
    /\ edges[2].source = "u1" /\ edges[2].target = "root"
    /\ arrowMode(edges[2]) = "None"
    /\ edges[2].style.props.strokeWidth = 5

\* C29: in every reachable state the source and the target of every visible edge
\* are rendered nodes.
VisibleEdgesJoinRenderedNodes ==
    \A i \in 1..Len(visibleEdges) :
       /\ visibleEdges[i].source \in RenderedIds
       /\ visibleEdges[i].target \in RenderedIds

\* C30: in every reachable state every node of the store that is collapsed and has
\* no collapsed ancestor is a rendered node that carries the collapse toggle.
CollapsedNodeCanBeToggled ==
    \A n \in NodeIds \cap CollapsedSet :
       n \notin Descendants(CollapsedSet, edges) => n \in ToggleIds


\* the nodes, edges and collapse set a stored item decodes to are those of the
\* update u
decodesTo(item, u) ==
    /\ item.kind = "object"
    /\ importedNodes(item.fields) = u.nodes
    /\ importedEdges(item.fields) = u.edges
    /\ ~collapsedThrows(item.fields)
    /\ importedCollapsed(item.fields) = u.collapsed

\* C31: while the editor is being mounted on a well-shaped snapshot S, from the
\* load effect that read S to the first render of the loaded graph, the local
\* storage still decodes to S, also when the mount effects run twice.
StartupKeepsSnapshot ==
    (mountAt # "done" /\ queued # <<>> /\ wellShaped(queued[1].saved))
       => decodesTo(storage, queued[1])


\* the ids the loop of computeHiddenTargets pushes on its queue, in order, from
\* the given queue and hidden set on
RECURSIVE drainPushes(_, _, _)
drainPushes(queue, hidden, es) ==
    IF queue = <<>> THEN <<>>
    ELSE LET r == forEachEdge(Head(queue), es, 1, hidden, Tail(queue))
         IN SubSeq(r.queue, Len(queue), Len(r.queue)) \o drainPushes(r.queue, r.hidden, es)

\* the loop of computeHiddenTargets empties its queue within n iterations
RECURSIVE drainsWithin(_, _, _, _)
drainsWithin(queue, hidden, es, n) ==
    IF queue = <<>> THEN TRUE
    ELSE IF n = 0 THEN FALSE
    ELSE LET r == forEachEdge(Head(queue), es, 1, hidden, Tail(queue))
         IN drainsWithin(r.queue, r.hidden, es, n - 1)

\* C32: computeHiddenTargets terminates on every collapse set and edge list, also
\* with cycles, self-loops and duplicate edges: the loop runs at most once for
\* each collapsed id and once for each edge target, and every id is pushed on the
\* queue, and added to the hidden set, at most once.
HiddenTerminates ==
    LET pushed == drainPushes(collapsed, {}, edges)
        targets == {edges[i].target : i \in 1..Len(edges)}
    IN /\ drainsWithin(collapsed, {}, edges, Len(collapsed) + Cardinality(targets))
       /\ \A i, j \in 1..Len(pushed) : pushed[i] = pushed[j] => i = j
       /\ Range(pushed) = hiddenTargets

\* C32 witness: the edge list has a self-loop, a duplicate edge and a cycle
\* through the root, the root is collapsed and every node is hidden.
HiddenTerminatesWitness ==
    /\ \E i \in 1..Len(edges) : edges[i].source = edges[i].target
    /\ \E i, j \in 1..Len(edges) :
          i # j /\ edges[i].source = edges[j].source /\ edges[i].target = edges[j].target
    /\ "root" \in CollapsedSet
    /\ "root" \in hiddenTargets
    /\ Cardinality(hiddenTargets) >= 2


\* C33: applyTemplate with exam, research or planner replaces the nodes and edges
\* by those of the template, empties the collapse set and selects the template's
\* first node; every edge then joins two nodes of the template and no two nodes
\* share an id; with any other type nothing changes.
TemplateReplacesGraph ==
    [][\A type \in TemplateTypes \cup {OtherType} :
          ApplyTemplate(type) =>
             IF type \in TemplateTypes
             THEN /\ idsOf(nodes') =
                        CASE type = "exam" -> {"1", "2", "3", "4"}
                          [] type = "research" -> {"root", "i", "m", "r", "c"}
                          [] type = "planner" -> {"root", "m", "n", "e"}
                  /\ Cardinality(idsOf(nodes')) = Len(nodes')
                  /\ Len(edges') = Len(nodes') - 1
                  /\ \A i \in 1..Len(edges') :
                        /\ edges'[i].source = nodes'[1].id
                        /\ edges'[i].target \in idsOf(nodes') \ {nodes'[1].id}
                  /\ collapsed' = <<>>
                  /\ selectedId' = nodes'[1].id
             ELSE UNCHANGED <<nodes, edges, collapsed, selectedId>>
      ]_vars

\* C33 witness: the planner template was applied to a map that had a child: the
\* nodes are the four of the template, the root is selected, nothing is collapsed
\* and the three edges have the ids issued after the child's.
TemplateWitness ==
    /\ NodeIds = {"root", "m", "n", "e"}
    /\ EdgeIds = {"u3", "u4", "u5"}
    /\ selectedId = "root"
    /\ collapsed = <<>>


\* C34: addChild adds exactly one study node and exactly one edge, with its only
\* arrowhead at the target, from the base node to the new node, and selects the new
\* node; the base is the selected node when the store has it and the first node
\* of the store otherwise; in an empty store addChild changes nothing.
AddChildAddsNodeAndEdge ==
    [][AddChild =>
          IF nodes = <<>>
          THEN UNCHANGED <<nodes, edges, selectedId>>
          ELSE LET base == IF selectedId \in NodeIds THEN selectedId ELSE nodes[1].id
                   child == nodes'[Len(nodes')]
                   e == edges'[Len(edges')]
               IN /\ AppendsOneNode("study")
                  /\ Len(edges') = Len(edges) + 1
                  /\ SubSeq(edges', 1, Len(edges)) = edges
                  /\ e.id \notin EdgeIds
                  /\ e.source = base /\ e.target = child.id
                  /\ arrowMode(e) = "Forward"
                  /\ selectedId' = child.id
      ]_vars

\* C34 witness: the first child u1 was deleted with the Delete key, which left no
\* node selected, and the next child u3 hangs below the first node of the store.
AddChildWitness ==
    /\ NodeIds = {"root", "u3"}
    /\ Len(edges) = 1
    /\ edges[1].id = "u4" /\ edges[1].source = "root" /\ edges[1].target = "u3"
    /\ selectedId = "u3"


\* C35: in every reachable state the node selection and the edge selection are
\* not both set.
SelectionIsExclusive == selectedId = Null \/ selectedEdgeId = Null

----------------------------------------------------------------------------
(* C36: the load-time normalisation of the to-do list terminates for every  *)
(* task list read from storage, and when it ends every task whose            *)
(* recurrence is not "none" has a deadline not earlier than the load time,   *)
(* reached by adding whole recurrence intervals to its stored deadline,      *)
(* while the tasks with recurrence "none" are unchanged                      *)

\* the instants reached from a stored instant by whole intervals: by days, by
\* weeks, or by calendar months, a month on from an instant being as many days
\* on as its month has (the day of the same number in the next month, counted
\* on past the end of a shorter month)
daysOn(instant, n) == instant + n * TicksPerDay

monthOn(instant) ==
    daysOn(instant, MonthLengths[((monthOf(dayOf(instant)) - 1) % 12) + 1])

RECURSIVE monthsOn(_, _)
monthsOn(instant, n) == IF n = 0 THEN instant ELSE monthsOn(monthOn(instant), n - 1)

wholeIntervals(instant, recurrence) ==
    CASE recurrence = "daily" -> {daysOn(instant, n) : n \in 0..MaxDay}
      [] recurrence = "weekly" -> {daysOn(instant, 7 * n) : n \in 0..MaxDay}
      [] recurrence = "monthly" -> {monthsOn(instant, n) : n \in 0..6}

normalised(was, is) ==
    IF was.recurrence = "none"
    THEN is = was
    ELSE /\ is = [was EXCEPT !.deadline = is.deadline]
         /\ is.deadline >= now
         /\ is.deadline \in wholeIntervals(was.deadline, was.recurrence)

\* C36: every run of the load effect reaches its end, and at its end the loaded
\* list is the stored list with every recurring task moved on by whole intervals
\* to a deadline not earlier than the load time and every other task unchanged.
LoadNormalises ==
    /\ [](todo.at = "load" => <>(todo.at = "save"))
    /\ [][TodoFinish =>
            /\ Len(todo.loaded) = Len(todo.stored)
            /\ \A k \in 1..Len(todo.stored) : normalised(todo.stored[k], todo.loaded[k])]_vars

\* C36 witness: the load effect is at its end on a stored list of two tasks: the
\* monthly task of 31 January went on through 3 March to 3 April, and the daily
\* task of the morning of the load day, earlier than the load time, to the
\* morning after.
LoadWitness ==
    /\ todo.at = "map" /\ todo.i > Len(todo.loaded) /\ todo.changed
    /\ Len(todo.stored) = 2
    /\ todo.stored[1].recurrence = "monthly"
    /\ todo.stored[1].deadline = atTime(30, 0)
    /\ todo.loaded[1].deadline = atTime(92, 0)
    /\ todo.stored[2].recurrence = "daily"
    /\ todo.stored[2].deadline = atTime(LoadDay, 0)
    /\ todo.loaded[2].deadline = atTime(LoadDay + 1, 0)

====
